---- MODULE Spec2Model ----
(***************************************************************************)
(* A model of faa: the advisory file lock (internal/lock), the Supervisor  *)
(* start-up sequence (internal/daemon, Daemon.Start), the registry with    *)
(* its write-then-rename persistence (internal/daemon/registry.go), the    *)
(* request handlers of the Supervisor and the Proxy controller.            *)
(*                                                                         *)
(* The Orchestrator (cmd/faa handleRun) with its dev process               *)
(* (internal/devproc) and the port choice (internal/port) follow.          *)
(*                                                                         *)
(* The specifications of the module:                                       *)
(*   SpecLock  processes racing through lock.Acquire on the daemon lock    *)
(*             or on a project lock, with the Supervisor's start-up and    *)
(*             shutdown around it;                                         *)
(*   SpecStop  Supervisors started and ended by stop requests and          *)
(*             signals, the end of Daemon.Start followed step by step;     *)
(*   Spec      one Supervisor at a time, started by handleDaemon with the  *)
(*             proxy running, serving connections with one handler         *)
(*             goroutine each; registry files and proxy are shared; the    *)
(*             clients send the requests that change the registry;         *)
(*   SpecConn  the same Supervisor, the clients sending requests of every  *)
(*             type;                                                       *)
(*   SpecRun   `faa run` invoked repeatedly for one project against that   *)
(*             Supervisor, with `faa status` and `faa stop` beside it; the *)
(*             Supervisor is followed both as handleRequest is (no         *)
(*             get_route case) and with a get_route handler;               *)
(*   SpecStale SpecRun started with the record of a dev process that is    *)
(*             gone;                                                       *)
(*   SpecPorts SpecRun started with a kept route while another project     *)
(*             registers its route;                                        *)
(*   SpecShut  the Supervisor with open connections, Daemon.Start          *)
(*             followed to its return and the exit of the process;         *)
(*   SpecStable port.StablePort called for several project names while     *)
(*             other programs take and release ports;                      *)
(*   SpecNorm  normalizeName applied to declared project names;            *)
(*   SpecEmpty SpecRun for projects whose name normalizes to nothing;      *)
(*   SpecFiles the Supervisor reading registry files that are missing,     *)
(*             empty or unparsable;                                        *)
(*   SpecApply upsert_route requests with caddy.Load failing or not;       *)
(*   SpecDecl  SpecRun for a project whose declared name is not its label; *)
(*   SpecProbe one call of port.StablePort followed through its loop over  *)
(*             the whole range of ports;                                   *)
(*   SpecHosts the Supervisor serving requests that name a host without    *)
(*             the suffix.                                                 *)
(***************************************************************************)
EXTENDS Integers, Sequences, FiniteSets, TLC

(***************************************************************************)
(* Bounds of the model.                                                    *)
(***************************************************************************)
\* processes that run lock.Acquire concurrently (Supervisors, Orchestrators)
NProc == 2
\* connections served at a time
NConn == 2
\* requests the clients send in a run
MaxReq == 3
\* `faa run` invocations followed in a run of SpecRun
MaxRuns == 2
\* requests the other clients send while `faa run` is followed
MaxOther == 1
\* stop requests and signals the Supervisors get in a run of SpecStop
MaxStops == 2

VARIABLES
    \* ---- lock subsystem (SpecLock) ----
    lockDir,      \* lock path -> inode the name refers to, 0 when no such file
    inodeData,    \* inode -> contents of the lock file (a sequence of characters)
    flockOwner,   \* inode -> process holding the exclusive flock on it, 0 if none
    pc,           \* process -> position in Acquire / Daemon.Start / handleRun
    kind,         \* what the processes of this run are: "daemon" (Supervisors racing
                  \* for daemon.lock) or "run" (Orchestrators racing for the project lock)
    fd,           \* process -> inode of its open lock-file descriptor, 0 if none
    raced,        \* process -> TRUE iff no process held its lock path when it was launched
    pidFile,      \* daemon.pid: 0 when absent, else the PID written in it
    sockFile      \* ctl.sock: 0 when absent, else the process that bound it

lockVars == <<lockDir, inodeData, flockOwner, pc, kind, fd, raced, pidFile, sockFile>>

VARIABLES
    \* ---- the running Supervisor (Spec) ----
    supState,     \* "down", "starting" (proxy started, routes not yet applied), "serving"
    stopReq,      \* a stop request was answered, Shutdown is about to be called
    livePids,     \* PIDs of the dev processes that exist
    regDir,       \* registry file name -> inode, 0 when no such file
    regData,      \* inode -> contents of the file
    menu,         \* the requests the clients of this run send
    budget,       \* requests the clients may still send
    connOpen,     \* connection -> it is accepted and not closed
    inbox,        \* connection -> requests written by the client, not yet decoded
    sent,         \* connection -> number of requests the client wrote on it
    nresp,        \* connection -> number of responses written on it
    lastResp,     \* the response written last, with the request it was computed for
    hpc,          \* connection -> position of its handler goroutine
    hreq,         \* connection -> the request its handler is working on
    hmap,         \* connection -> the map its handler holds (loaded, mutated, to apply)
    hfd,          \* connection -> inode its handler has open for writing, 0 if none
    pRunning,     \* Proxy.running
    pRoutes,      \* Proxy.routes, the snapshot stored in the controller
    caddy,        \* the configuration the embedded proxy serves
    \* ---- history, read only by the properties ----
    applyFailed,  \* the last ApplyRoutes call of a handler returned an error
    base,         \* the registry maps the run started with
    clean,        \* no crash, exit or failed mutation since the run started
    ackR,         \* host -> ports of the upsert_route requests answered with success
    ackP,         \* root -> outcomes of the process mutations answered with success
    lastAck,      \* host -> port of the last successful upsert_route, 0 once the
                  \* host is upserted again
    crashed       \* the Supervisor was killed and has not been restarted

diskVars == <<regDir, regData>>
connVars == <<connOpen, inbox, sent, budget>>
respVars == <<nresp, lastResp>>
handlerVars == <<hpc, hreq, hmap, hfd>>
proxyVars == <<pRunning, pRoutes, caddy, applyFailed>>
histVars == <<base, clean, ackR, ackP, lastAck, crashed>>
envVars == <<supState, stopReq, livePids, menu>>

daemonVars == <<envVars, diskVars, connVars, respVars, handlerVars, proxyVars, histVars>>

VARIABLES
    \* ---- the Orchestrator (`faa run`) and its dev process (SpecRun) ----
    getRouteCase, \* handleRequest of the Supervisor has a case for get_route
    rpc,          \* position of the Orchestrator in handleRun
    rwait,        \* it has written a request and is reading the response
    rconn,        \* the connection it holds, 0 when it has none or it is broken
    rproc,        \* existingProc
    rport,        \* finalPort
    rexit,        \* <<status>> once handleRun has decided what to return, else <<>>
    runs,         \* invocations of `faa run` so far
    child,        \* the devproc.Process of the invocation
    orphans,      \* connections the client has closed and the handler has not yet
                  \* found closed
    busy          \* TCP ports held by listeners that are not dev processes of faa

runVars == <<getRouteCase, rpc, rwait, rconn, rproc, rport, rexit, runs, child, orphans, busy>>

VARIABLES
    \* ---- the way a Supervisor process ends (SpecStop) ----
    notified,     \* process -> it has called signal.Notify (Daemon.Start line 195)
    sleeping,     \* process -> goroutines of handleStop that have not yet called
                  \* Shutdown
    closed,       \* process -> d.shutdown is closed
    sigQueued,    \* process -> a signal is in sigChan
    asked,        \* process -> it was sent a stop request or a signal since its launch
    asks          \* stop requests and signals so far

stopVars == <<notified, sleeping, closed, sigQueued, asked, asks>>

VARIABLES
    \* ---- the Supervisor between the return of Daemon.Start and its exit ----
    returned,     \* Daemon.Start has returned nil after a shutdown and the
                  \* process has not exited yet (SpecShut)
    \* ---- calls of port.StablePort ----
    decl,         \* the "name" of the package.json of the project
    pname,        \* proj.Name, the name StablePort is called with
    labels,       \* the results of normalizeName applied to decl, then to its
                  \* own result, and so on (SpecNorm)
    calls,        \* the calls of StablePort followed one by one (SpecStable): for
                  \* each the ports that were taken and the port returned
    \* ---- history of the upserts that failed at the proxy (SpecApply) ----
    probe,        \* the loop of one call of StablePort followed iteration by
                  \* iteration (SpecProbe): its position, port and attempts, and
                  \* the port it returns (0 for its error)
    unapplied     \* the routes <<host, port>> of the upsert_route requests that
                  \* were answered with the error of ApplyRoutes

extVars == <<returned, decl, pname, labels, calls, probe, unapplied>>

vars == <<lockVars, daemonVars, runVars, stopVars, extVars>>

(***************************************************************************)
(* internal/lock                                                           *)
(***************************************************************************)
Procs == 1 .. NProc

\* The PID of process slot p is p.
DaemonLock == "daemon.lock"
ProjectLock == "/proj/.faa.lock"
LockPaths == {DaemonLock, ProjectLock}

\* LockPath() for a Supervisor, filepath.Join(proj.Root, ".faa.lock") for `run`.
\* The two files are unrelated (Acquire touches only the path it is given), so a
\* run of the model follows the processes racing for one of them.
PathOf(k) == IF k = "daemon" THEN DaemonLock ELSE ProjectLock

Inodes == 1 .. (Cardinality(LockPaths) + NProc)

\* Contents a lock file is found with. Acquire itself never writes the file, so
\* whatever it holds was put there by something else (a test, an older tool):
\* nothing, "0", "-1", the PID of process 1, a PID nobody has, not a number.
LockContents ==
    { <<>>, <<"0">>, <<"-", "1">>, <<"1", "\n">>, <<"9", "9">>, <<"n", "o">> }

IsSpace(ch) == ch \in {" ", "\n", "\t", "\r"}

RECURSIVE TrimLeft(_)
TrimLeft(s) ==
    IF s # <<>> /\ IsSpace(Head(s)) THEN TrimLeft(Tail(s)) ELSE s

RECURSIVE TrimRight(_)
TrimRight(s) ==
    IF s # <<>> /\ IsSpace(s[Len(s)]) THEN TrimRight(SubSeq(s, 1, Len(s) - 1)) ELSE s

\* strings.TrimSpace
TrimSpace(s) == TrimRight(TrimLeft(s))

IsDigit(ch) == ch \in {"0", "1", "2", "3", "4", "5", "6", "7", "8", "9"}

DigitVal(ch) ==
    CASE ch = "0" -> 0 [] ch = "1" -> 1 [] ch = "2" -> 2 [] ch = "3" -> 3
      [] ch = "4" -> 4 [] ch = "5" -> 5 [] ch = "6" -> 6 [] ch = "7" -> 7
      [] ch = "8" -> 8 [] OTHER -> 9

RECURSIVE DigitsVal(_, _)
DigitsVal(s, acc) ==
    IF s = <<>> THEN acc ELSE DigitsVal(Tail(s), acc * 10 + DigitVal(Head(s)))

\* strconv.Atoi: an optional sign and at least one digit, nothing else.
Atoi(s) ==
    LET signed == s # <<>> /\ Head(s) \in {"-", "+"}
        digits == IF signed THEN Tail(s) ELSE s
        ok == digits # <<>> /\ \A i \in 1 .. Len(digits) : IsDigit(digits[i])
    IN  [ok |-> ok,
         val |-> IF ~ok THEN 0
                 ELSE IF signed /\ Head(s) = "-" THEN 0 - DigitsVal(digits, 0)
                 ELSE DigitsVal(digits, 0)]

\* unix.Kill(pid, 0) succeeds: the PID belongs to a process that exists.
PidExists(pid) == pid \in Procs /\ pc[pid] # "idle"

\* isLockStale where a file that holds no number counts as stale too.
isLockStaleUnparsed(path) ==
    /\ lockDir[path] # 0
    /\ LET parsed == Atoi(TrimSpace(inodeData[lockDir[path]]))
       IN  ~parsed.ok \/ parsed.val <= 0 \/ ~PidExists(parsed.val)

\* isLockStale(path): the file is readable, holds a PID, and that PID is <= 0
\* or belongs to no process.
isLockStale(path) ==
    /\ lockDir[path] # 0
    /\ LET parsed == Atoi(TrimSpace(inodeData[lockDir[path]]))
       IN  /\ parsed.ok
           /\ (parsed.val <= 0 \/ ~PidExists(parsed.val))

\* Inodes some name or some descriptor refers to.
InodesInUse == {lockDir[n] : n \in LockPaths} \cup {fd[p] : p \in Procs}

FreshInode == CHOOSE i \in Inodes : i \notin InodesInUse /\ \A j \in Inodes : j < i => j \in InodesInUse

\* The inode os.OpenFile(path, O_CREATE|O_RDWR) opens: the existing file, or a new
\* empty one.
OpenedInode(path) == IF lockDir[path] # 0 THEN lockDir[path] ELSE FreshInode

\* The contents of an inode nothing refers to any more are gone.
Reclaimed(data, dir, fds) ==
    [i \in Inodes |->
        IF i \in {dir[n] : n \in LockPaths} \cup {fds[p] : p \in Procs}
        THEN data[i] ELSE <<>>]

\* Acquire has returned a *Lock to p and p has not released it.
HoldingPcs ==
    {"locked", "pidWritten", "routesApplied", "serving", "stopping", "sockRemoved",
     "pidRemoved"}

HoldsLock(p) == pc[p] \in HoldingPcs

\* A process is started: `faa daemon` (handleDaemon -> Daemon.Start) or `faa run`.
Launch(p) ==
    /\ pc[p] = "idle"
    /\ pc' = [pc EXCEPT ![p] = "open"]
    /\ raced' = [raced EXCEPT ![p] = ~\E q \in Procs : q # p /\ HoldsLock(q)]
    /\ UNCHANGED <<lockDir, inodeData, flockOwner, kind, fd, pidFile, sockFile>>

\* Acquire, line 27 (and line 43 after the cleanup): open or create the lock file.
OpenLockFile(p, next) ==
    LET path == PathOf(kind)
        i == OpenedInode(path)
    IN  /\ fd' = [fd EXCEPT ![p] = i]
        /\ lockDir' = [lockDir EXCEPT ![path] = i]
        /\ inodeData' = IF lockDir[path] = 0 THEN [inodeData EXCEPT ![i] = <<>>]
                        ELSE inodeData
        /\ pc' = [pc EXCEPT ![p] = next]
        /\ UNCHANGED <<flockOwner, kind, raced, pidFile, sockFile>>

AcquireOpen(p) ==
    /\ pc[p] = "open"
    /\ OpenLockFile(p, "flock")

\* unix.Flock(fd, LOCK_EX|LOCK_NB) by p: taken (Acquire returns the *Lock), or
\* EWOULDBLOCK; after EWOULDBLOCK the descriptor is closed and p goes on at
\* `contended`.
TryFlock(p, contended) ==
    IF flockOwner[fd[p]] = 0
    THEN /\ flockOwner' = [flockOwner EXCEPT ![fd[p]] = p]
         /\ pc' = [pc EXCEPT ![p] = "locked"]
         /\ UNCHANGED <<fd, inodeData>>
    ELSE /\ fd' = [fd EXCEPT ![p] = 0]
         /\ inodeData' = Reclaimed(inodeData, lockDir, fd')
         /\ pc' = [pc EXCEPT ![p] = contended]
         /\ UNCHANGED flockOwner

\* Acquire, lines 34-39: the first flock attempt; on contention the staleness
\* check follows.
AcquireFlock(p) ==
    /\ pc[p] = "flock"
    /\ TryFlock(p, "checkStale")
    /\ UNCHANGED <<lockDir, kind, raced, pidFile, sockFile>>

\* Acquire, lines 40 and 52-54: stale -> go on to remove the file; otherwise
\* return "failed to acquire lock".
AcquireCheckStale(p) ==
    /\ pc[p] = "checkStale"
    /\ pc' = [pc EXCEPT ![p] = IF isLockStale(PathOf(kind)) THEN "remove" ELSE "failed"]
    /\ UNCHANGED <<lockDir, inodeData, flockOwner, kind, fd, raced, pidFile, sockFile>>

\* Acquire, line 42: _ = os.Remove(path).
AcquireRemove(p) ==
    /\ pc[p] = "remove"
    /\ lockDir' = [lockDir EXCEPT ![PathOf(kind)] = 0]
    /\ inodeData' = Reclaimed(inodeData, lockDir', fd)
    /\ pc' = [pc EXCEPT ![p] = "reopen"]
    /\ UNCHANGED <<flockOwner, kind, fd, raced, pidFile, sockFile>>

AcquireReopen(p) ==
    /\ pc[p] = "reopen"
    /\ OpenLockFile(p, "reflock")

\* Acquire, lines 47-51: the second and last flock attempt.
AcquireReflock(p) ==
    /\ pc[p] = "reflock"
    /\ TryFlock(p, "failed")
    /\ UNCHANGED <<lockDir, kind, raced, pidFile, sockFile>>

\* Gone with a lock that outlives its holder (a lock that is not dropped when
\* the descriptor is closed).
GoneKeepsFlock(p) ==
    /\ fd' = [fd EXCEPT ![p] = 0]
    /\ inodeData' = Reclaimed(inodeData, lockDir, fd')
    /\ pc' = [pc EXCEPT ![p] = "idle"]
    /\ raced' = [raced EXCEPT ![p] = FALSE]
    /\ UNCHANGED <<lockDir, kind, flockOwner>>

\* The process is gone: its descriptor is closed, which drops a flock held
\* through it (Lock.Release does the same: LOCK_UN, then Close).
Gone(p) ==
    /\ flockOwner' = [i \in Inodes |-> IF flockOwner[i] = p THEN 0 ELSE flockOwner[i]]
    /\ fd' = [fd EXCEPT ![p] = 0]
    /\ inodeData' = Reclaimed(inodeData, lockDir, fd')
    /\ pc' = [pc EXCEPT ![p] = "idle"]
    /\ raced' = [raced EXCEPT ![p] = FALSE]
    /\ UNCHANGED <<lockDir, kind>>

\* Daemon.Start, lines 148-151: writePidFile, after the lock was acquired.
SupWritePidFile(p) ==
    /\ pc[p] = "locked" /\ kind = "daemon"
    /\ pidFile' = p
    /\ pc' = [pc EXCEPT ![p] = "pidWritten"]
    /\ UNCHANGED <<lockDir, inodeData, flockOwner, kind, fd, raced, sockFile>>

\* Daemon.Start, lines 154-156: loadAndApplyRoutes. When it fails Start returns
\* the error and the deferred removePidFile and lock.Release run.
SupLoadAndApplyRoutes(p) ==
    /\ pc[p] = "pidWritten"
    /\ \/ /\ pc' = [pc EXCEPT ![p] = "routesApplied"]
          /\ UNCHANGED <<lockDir, inodeData, flockOwner, kind, fd, raced, pidFile>>
       \/ /\ Gone(p)
          /\ pidFile' = 0
    /\ UNCHANGED sockFile

\* Daemon.Start, lines 165-180: remove a stale socket file and listen.
SupListen(p) ==
    /\ pc[p] = "routesApplied"
    /\ sockFile' = p
    /\ pc' = [pc EXCEPT ![p] = "serving"]
    /\ UNCHANGED <<lockDir, inodeData, flockOwner, kind, fd, raced, pidFile>>

\* Daemon.Start, lines 207-226 and the deferred calls of lines 145, 151, 179, 180:
\* a signal or a stop request ends the select; the socket and the PID file are
\* removed and the lock is released.
SupShutdown(p) ==
    /\ pc[p] = "serving"
    /\ sockFile' = 0
    /\ pidFile' = 0
    /\ Gone(p)

\* handleRun, line 353 (defer projectLock.Release()): `run` returns, on any path
\* after the project lock was acquired.
RunReturn(p) ==
    /\ pc[p] = "locked" /\ kind = "run"
    /\ Gone(p)
    /\ UNCHANGED <<pidFile, sockFile>>

\* A Daemon.Start that registers its deferred removePidFile before it tries the
\* lock: the PID file is removed when Acquire has failed.
ExitAfterLockFailureRemovesPid(p) ==
    /\ pc[p] = "failed"
    /\ Gone(p)
    /\ pidFile' = 0
    /\ UNCHANGED sockFile

\* Daemon.Start line 143 / handleRun line 351: Acquire failed, the process reports
\* the error and exits.
ExitAfterLockFailure(p) ==
    /\ pc[p] = "failed"
    /\ Gone(p)
    /\ UNCHANGED <<pidFile, sockFile>>

\* The process is killed: the kernel closes its descriptors, which drops its
\* flock; no deferred call runs, so daemon.pid and ctl.sock stay behind.
Crash(p) ==
    /\ pc[p] # "idle"
    /\ Gone(p)
    /\ UNCHANGED <<pidFile, sockFile>>

(***************************************************************************)
(* internal/daemon: the end of Daemon.Start, step by step                  *)
(***************************************************************************)
\* Positions of a process that has passed acquireLock.
SupervisorPcs == HoldingPcs \cup {"released"}

\* The goroutines and channels of a process vanish with it.
Forget(p) ==
    /\ notified' = [notified EXCEPT ![p] = FALSE]
    /\ sleeping' = [sleeping EXCEPT ![p] = 0]
    /\ closed' = [closed EXCEPT ![p] = FALSE]
    /\ sigQueued' = [sigQueued EXCEPT ![p] = FALSE]

\* The process dies where it stands (runtime panic, or a signal with the default
\* disposition): no deferred call runs; the kernel closes its descriptors.
Dies(p) ==
    /\ Gone(p)
    /\ Forget(p)
    /\ UNCHANGED <<pidFile, sockFile>>

\* `faa daemon` is started again in a slot: nothing was asked of it yet.
Relaunch(p) ==
    /\ Launch(p)
    /\ asked' = [asked EXCEPT ![p] = FALSE]
    /\ UNCHANGED <<notified, sleeping, closed, sigQueued, asks>>

\* Daemon.Start, lines 193-204: signal.Notify(sigChan, SIGTERM, SIGINT) and the
\* start of the accept loop.
SupNotify(p) ==
    /\ pc[p] = "serving"
    /\ ~notified[p]
    /\ notified' = [notified EXCEPT ![p] = TRUE]
    /\ UNCHANGED <<lockVars, sleeping, closed, sigQueued, asked, asks>>

\* handleStop: a stop request is answered by a handler goroutine, which starts
\* the goroutine that sleeps 100 ms and calls d.Shutdown(). Handlers go on
\* serving their connections until the process exits.
StopRequest(p) ==
    /\ pc[p] \in SupervisorPcs
    /\ notified[p]
    /\ asks < MaxStops
    /\ asks' = asks + 1
    /\ asked' = [asked EXCEPT ![p] = TRUE]
    /\ sleeping' = [sleeping EXCEPT ![p] = @ + 1]
    /\ UNCHANGED <<lockVars, notified, closed, sigQueued>>

\* Daemon.Shutdown, close(d.shutdown), called by a goroutine of handleStop: the
\* close of a channel that is closed already panics, which ends the process.
ShutdownCall(p) ==
    /\ sleeping[p] > 0
    /\ IF closed[p]
       THEN /\ Dies(p)
            /\ UNCHANGED <<asked, asks>>
       ELSE /\ closed' = [closed EXCEPT ![p] = TRUE]
            /\ sleeping' = [sleeping EXCEPT ![p] = @ - 1]
            /\ UNCHANGED <<lockVars, notified, sigQueued, asked, asks>>

\* SIGTERM or SIGINT is sent to a Supervisor process: it is queued in sigChan
\* once signal.Notify was called (a signal that finds the channel full is
\* dropped), and ends the process before that.
SupSignal(p) ==
    /\ pc[p] \in SupervisorPcs
    /\ asks < MaxStops
    /\ asks' = asks + 1
    /\ IF notified[p]
       THEN /\ sigQueued' = [sigQueued EXCEPT ![p] = TRUE]
            /\ asked' = [asked EXCEPT ![p] = TRUE]
            /\ UNCHANGED <<lockVars, notified, sleeping, closed>>
       ELSE /\ Dies(p)
            /\ asked' = [asked EXCEPT ![p] = TRUE]

\* Daemon.Start, lines 207-224: the select returns on a signal or on the closed
\* d.shutdown; cancel() and listener.Close().
SupSelect(p) ==
    /\ pc[p] = "serving"
    /\ notified[p]
    /\ sigQueued[p] \/ closed[p]
    /\ pc' = [pc EXCEPT ![p] = "stopping"]
    /\ sigQueued' = [sigQueued EXCEPT ![p] = (@ /\ closed[p])]
    /\ UNCHANGED <<lockDir, inodeData, flockOwner, kind, fd, raced, pidFile, sockFile>>
    /\ UNCHANGED <<notified, sleeping, closed, asked, asks>>

\* The deferred calls of Daemon.Start, last first: removeSocket and
\* listener.Close (lines 180, 179), ...
SupRemoveSocket(p) ==
    /\ pc[p] = "stopping"
    /\ sockFile' = 0
    /\ pc' = [pc EXCEPT ![p] = "sockRemoved"]
    /\ UNCHANGED <<lockDir, inodeData, flockOwner, kind, fd, raced, pidFile, stopVars>>

\* ... removePidFile (line 151), ...
SupRemovePidFile(p) ==
    /\ pc[p] = "sockRemoved"
    /\ pidFile' = 0
    /\ pc' = [pc EXCEPT ![p] = "pidRemoved"]
    /\ UNCHANGED <<lockDir, inodeData, flockOwner, kind, fd, raced, sockFile, stopVars>>

\* ... and d.lock.Release() (line 145): LOCK_UN and Close. Start has returned;
\* handleDaemon goes on to its deferred p.Stop().
SupRelease(p) ==
    /\ pc[p] = "pidRemoved"
    /\ flockOwner' = [i \in Inodes |-> IF flockOwner[i] = p THEN 0 ELSE flockOwner[i]]
    /\ fd' = [fd EXCEPT ![p] = 0]
    /\ inodeData' = Reclaimed(inodeData, lockDir, fd')
    /\ pc' = [pc EXCEPT ![p] = "released"]
    /\ UNCHANGED <<lockDir, kind, raced, pidFile, sockFile, stopVars>>

\* handleDaemon returns ExitSuccess and the process exits.
SupExit(p) ==
    /\ pc[p] = "released"
    /\ Dies(p)
    /\ UNCHANGED <<asked, asks>>

\* StablePort is not being called.
NoProbe == [pc |-> "idle", port |-> 0, attempts |-> 0, result |-> 0]

\* No Supervisor runs, nothing was asked of one.
\* Nothing of the specifications that follow one component alone is under way.
ExtIdle ==
    /\ returned = FALSE
    /\ labels = <<>>
    /\ calls = <<>>
    /\ probe = NoProbe
    /\ unapplied = {}

StopIdle ==
    /\ notified = [p \in Procs |-> FALSE]
    /\ sleeping = [p \in Procs |-> 0]
    /\ closed = [p \in Procs |-> FALSE]
    /\ sigQueued = [p \in Procs |-> FALSE]
    /\ asked = [p \in Procs |-> FALSE]
    /\ asks = 0
    /\ ExtIdle

(***************************************************************************)
(* internal/daemon: registry files                                         *)
(***************************************************************************)
Conns == 1 .. NConn

\* A host name is the sequence of its labels; ".local" is the suffix
\* normalizeHost looks for.
Suffix == ".local"
HostA == <<"a">>
HostALocal == <<"a", ".local">>
HostBLocal == <<"b", ".local">>
NoHost == <<>>

PortA == 3000
PortB == 3001
Ports == {PortA, PortB}

Root == "/proj"
Roots == {Root}

\* PIDs of dev processes: ChildPid exists when the run starts, GonePid belongs
\* to no process.
DevPids == {41}
ChildPid == CHOOSE pid \in DevPids : TRUE
GonePid == 999999

\* normalizeHost: append ".local" unless the host already ends with it.
normalizeHost(h) ==
    IF h # <<>> /\ h[Len(h)] = Suffix THEN h ELSE Append(h, Suffix)

\* Go maps as functions.
EmptyMap == <<>>
Put(m, k, v) == [x \in (DOMAIN m) \cup {k} |-> IF x = k THEN v ELSE m[x]]
Delete(m, ks) == [x \in (DOMAIN m) \ ks |-> m[x]]
NoMap == EmptyMap

\* A Process entry (StartedAt plays no part in any decision of the registry).
Proc(pid, host, port) == [pid |-> pid, host |-> host, port |-> port]

RoutesPath == "routes.json"
ProcessesPath == "processes.json"
\* routesPath + ".tmp", processesPath + ".tmp"
TmpOf(path) == IF path = RoutesPath THEN "routes.json.tmp" ELSE "processes.json.tmp"
RegPaths == {RoutesPath, ProcessesPath, TmpOf(RoutesPath), TmpOf(ProcessesPath)}

RegInodes == 1 .. (Cardinality(RegPaths) + NConn)

\* Contents of a registry file: nothing yet because an os.WriteFile has
\* truncated it and not written, bytes that are not JSON, or the JSON text of a
\* map.
TruncFile == [kind |-> "trunc", val |-> EmptyMap]
GarbageFile == [kind |-> "garbage", val |-> EmptyMap]
FreeInode == [kind |-> "free", val |-> EmptyMap]
\* json.MarshalIndent of a map
Marshal(m) == [kind |-> "json", val |-> m]

\* What os.ReadFile(path) finds: "absent" for os.IsNotExist.
NoFile == [kind |-> "absent", val |-> EmptyMap]
FileAt(dir, data, path) == IF dir[path] = 0 THEN NoFile ELSE data[dir[path]]

\* json.Unmarshal of the bytes into a map; ok is FALSE when it returns an error.
Unmarshal(file) ==
    [ok |-> file.kind = "json", val |-> IF file.kind = "json" THEN file.val ELSE EmptyMap]

\* loadRoutes on a file: a missing file and a zero-length file give the empty
\* map; a parse error is returned; the keys are normalized on the way in. When
\* two keys normalize to the same host the one kept depends on the iteration
\* order of the Go map, so the result is a set of possible maps.
loadRoutes(file) ==
    IF file.kind \in {"absent", "trunc"}
    THEN {[err |-> FALSE, map |-> EmptyMap]}
    ELSE IF ~Unmarshal(file).ok
    THEN {[err |-> TRUE, map |-> EmptyMap]}
    ELSE LET raw == Unmarshal(file).val
             keys == {normalizeHost(h) : h \in DOMAIN raw}
         IN  {[err |-> FALSE, map |-> m] :
                m \in {f \in [keys -> {raw[h] : h \in DOMAIN raw}] :
                        \A k \in keys : \E h \in DOMAIN raw :
                            normalizeHost(h) = k /\ raw[h] = f[k]}}

\* loadProcesses without the test of line 153 for a file of length zero.
loadProcessesNoEmptyCheck(file) ==
    IF file.kind = "absent"
    THEN {[err |-> FALSE, map |-> EmptyMap]}
    ELSE IF ~Unmarshal(file).ok
    THEN {[err |-> TRUE, map |-> EmptyMap]}
    ELSE {[err |-> FALSE, map |-> Unmarshal(file).val]}

\* loadProcesses on a file.
loadProcesses(file) ==
    IF file.kind \in {"absent", "trunc"}
    THEN {[err |-> FALSE, map |-> EmptyMap]}
    ELSE IF ~Unmarshal(file).ok
    THEN {[err |-> TRUE, map |-> EmptyMap]}
    ELSE {[err |-> FALSE, map |-> Unmarshal(file).val]}

Load(dir, data, path) ==
    IF path = RoutesPath THEN loadRoutes(FileAt(dir, data, path))
    ELSE loadProcesses(FileAt(dir, data, path))

\* isProcessAlive
isProcessAlive(pid) == pid > 0 /\ pid \in livePids

\* The entries CleanupStaleProcesses deletes from a loaded map.
StaleRoots(m) == {k \in DOMAIN m : ~isProcessAlive(m[k].pid)}

RegInodesInUse(dir, fds) == {dir[n] : n \in RegPaths} \cup {fds[c] : c \in Conns}

FreshRegInode ==
    CHOOSE i \in RegInodes :
        /\ i \notin RegInodesInUse(regDir, hfd)
        /\ \A j \in RegInodes : j < i => j \in RegInodesInUse(regDir, hfd)

\* The contents of an inode no name and no descriptor refers to are gone.
RegReclaimed(data, dir, fds) ==
    [i \in RegInodes |-> IF i \in RegInodesInUse(dir, fds) THEN data[i] ELSE FreeInode]

(***************************************************************************)
(* internal/proxy                                                          *)
(***************************************************************************)
HTTPPort == 80
HTTPSPort == 443

\* No configuration is loaded: the embedded proxy does not run.
NoConfig == [httpPort |-> 0, httpsPort |-> 0, routes |-> {}]

\* fmt.Sprintf("127.0.0.1:%d", port)
Dial(port) == <<"127.0.0.1", port>>

\* buildConfigJSON: one reverse_proxy route per entry of the stored snapshot,
\* between fixed parts (admin endpoint, redirect server, internal issuer).
buildConfigJSON(routes) ==
    [httpPort |-> HTTPPort, httpsPort |-> HTTPSPort,
     routes |-> {[host |-> h, dial |-> Dial(routes[h])] : h \in DOMAIN routes}]

\* Proxy.ApplyRoutes(routes) under p.mu; loadFails says whether caddy.Load
\* returns an error. The result is the snapshot stored, the configuration
\* served afterwards and whether an error is returned.
ApplyRoutes(routes, loadFails) ==
    IF ~pRunning
    THEN [routes |-> routes, caddy |-> caddy, err |-> FALSE]
    ELSE IF loadFails
    THEN [routes |-> routes, caddy |-> caddy, err |-> TRUE]
    ELSE [routes |-> routes, caddy |-> buildConfigJSON(routes), err |-> FALSE]

(***************************************************************************)
(* internal/daemon: requests                                               *)
(***************************************************************************)
Req(type, host, port, root, pid) ==
    [type |-> type, host |-> host, port |-> port, root |-> root, pid |-> pid]

NoReq == Req("", NoHost, 0, "", 0)
Ping == Req("ping", NoHost, 0, "", 0)
UpsertRoute(h, p) == Req("upsert_route", h, p, "", 0)
GetRoute(h) == Req("get_route", h, 0, "", 0)
ListRoutes == Req("list_routes", NoHost, 0, "", 0)
SetProcess(root, pid, h, p) == Req("set_process", h, p, root, pid)
GetProcess(root) == Req("get_process", NoHost, 0, root, 0)
ClearProcess(root) == Req("clear_process", NoHost, 0, root, 0)
Status == Req("status", NoHost, 0, "", 0)
Stop == Req("stop", NoHost, 0, "", 0)
\* a well-formed request of a type the protocol does not have
Bogus == Req("bogus", NoHost, 0, "", 0)
\* a line that is not a JSON request
Malformed == Req("#malformed", NoHost, 0, "", 0)

\* The request with its position in the stream of its connection.
Numbered(r, i) ==
    [type |-> r.type, host |-> r.host, port |-> r.port, root |-> r.root,
     pid |-> r.pid, id |-> i]

NoResp == [conn |-> 0, req |-> Numbered(NoReq, 0), ok |-> FALSE, err |-> "", data |-> <<>>]

\* The types handleRequest has a case for that go to the registry.
MutationTypes == {"upsert_route", "set_process", "clear_process"}
SweepTypes == {"get_process", "status"}
RegistryTypes == MutationTypes \cup SweepTypes \cup {"list_routes"}

\* The registry file the first registry call of a handler works on.
FileOf(type) == IF type \in {"upsert_route", "list_routes"} THEN RoutesPath ELSE ProcessesPath

(***************************************************************************)
(* internal/daemon: the handler goroutine of a connection                  *)
(***************************************************************************)
NormHosts == {HostALocal, HostBLocal}
NoProc == Proc(0, NoHost, 0)
NoAckR == [h \in NormHosts |-> {}]
NoAckP == [r \in Roots |-> {}]
NoLastAck == [h \in NormHosts |-> 0]

\* A reader that hands out the line written last instead of the first one.
DecodeRequestNewest(q) == q[Len(q)]

\* DecodeRequest(reader): the first line of what the client has written.
DecodeRequest(q) == Head(q)

\* How a step of a handler ends: it goes on at `next` holding `map`, or
\* (next = "reply") handleRequest returns a response.
Go(next, m) == [next |-> next, map |-> m, ok |-> FALSE, err |-> "", data |-> <<>>]
\* NewSuccessResponse(data)
Ok(data) == [next |-> "reply", map |-> NoMap, ok |-> TRUE, err |-> "", data |-> data]
\* NewErrorResponse(err)
Err(e) == [next |-> "reply", map |-> NoMap, ok |-> FALSE, err |-> e, data |-> <<>>]

\* The handler of c finishes a step on request r. On "reply" handleConnection
\* writes the response with EncodeResponse and goes back to DecodeRequest.
\* removed: the roots a sweep of this step has deleted on disk.
Proceed(c, r, res, removed) ==
    LET replied == res.next = "reply"
        nh == normalizeHost(r.host)
        failedMutation == replied /\ ~res.ok /\ r.type \in MutationTypes
        acked == replied /\ res.ok
    IN  /\ hpc' = [hpc EXCEPT ![c] = IF replied THEN "read" ELSE res.next]
        /\ hreq' = [hreq EXCEPT ![c] = IF replied THEN Numbered(NoReq, 0) ELSE r]
        /\ hmap' = [hmap EXCEPT ![c] = IF replied THEN NoMap ELSE res.map]
        /\ nresp' = [nresp EXCEPT ![c] = IF replied THEN @ + 1 ELSE @]
        /\ lastResp' = IF replied
                       THEN [conn |-> c, req |-> r, ok |-> res.ok, err |-> res.err,
                             data |-> res.data]
                       ELSE lastResp
        /\ clean' = (clean /\ ~failedMutation)
        /\ ackR' = IF ~clean' THEN NoAckR
                   ELSE IF acked /\ r.type = "upsert_route"
                   THEN [ackR EXCEPT ![nh] = @ \cup {r.port}]
                   ELSE ackR
        /\ ackP' = IF ~clean' THEN NoAckP
                   ELSE IF acked /\ r.type = "set_process"
                   THEN [ackP EXCEPT ![r.root] = @ \cup {Proc(r.pid, r.host, r.port)}]
                   ELSE IF acked /\ r.type = "clear_process"
                   THEN [ackP EXCEPT ![r.root] = @ \cup {NoProc}]
                   ELSE [x \in Roots |-> IF x \in removed THEN ackP[x] \cup {NoProc}
                                         ELSE ackP[x]]
        /\ lastAck' = IF r.type # "upsert_route" THEN lastAck
                      ELSE IF acked THEN [lastAck EXCEPT ![nh] = r.port]
                      ELSE IF replied THEN lastAck
                      ELSE [lastAck EXCEPT ![nh] = 0]
        /\ UNCHANGED <<base, crashed>>

\* The handler of c is blocked in DecodeRequest and a request is there.
CanDecode(c) ==
    /\ supState = "serving"
    /\ connOpen[c]
    /\ hpc[c] = "read"
    /\ inbox[c] # <<>>

\* The handler of c is at `at` inside handleRequest.
Busy(c, at) ==
    /\ supState = "serving"
    /\ hpc[c] = at

\* handleConnection lines 267-271: DecodeRequest returns an error on a line that
\* is not a request; the handler returns and the deferred conn.Close runs.
HandleDecodeError(c) ==
    /\ CanDecode(c)
    /\ DecodeRequest(inbox[c]).type = Malformed.type
    /\ connOpen' = [connOpen EXCEPT ![c] = FALSE]
    /\ inbox' = [inbox EXCEPT ![c] = <<>>]
    /\ sent' = [sent EXCEPT ![c] = 0]
    /\ nresp' = [nresp EXCEPT ![c] = 0]
    /\ lastResp' = IF lastResp.conn = c THEN NoResp ELSE lastResp
    /\ UNCHANGED <<budget, envVars, diskVars, handlerVars, proxyVars, histVars>>

\* handleRequest with a default case that answers with success.
HandleLocalDefaultOk(c) ==
    /\ CanDecode(c)
    /\ LET r == DecodeRequest(inbox[c])
       IN  /\ r.type \notin RegistryTypes \cup {Malformed.type}
           /\ ~(getRouteCase /\ r.type = "get_route")
           /\ Proceed(c, r,
                      CASE r.type = "ping" -> Ok(<<"pong">>)
                        [] r.type = "stop" -> Ok(<<>>)
                        [] OTHER -> Ok(<<>>),
                      {})
           /\ stopReq' = (stopReq \/ r.type = "stop")
    /\ inbox' = [inbox EXCEPT ![c] = Tail(@)]
    /\ UNCHANGED <<supState, livePids, menu, connOpen, sent, budget, hfd, diskVars, proxyVars>>

\* handleRequest for the types answered without the registry: handlePing,
\* handleStop (the response is built, Shutdown follows 100ms later), and the
\* default case, which every other type falls to.
HandleLocal(c) ==
    /\ CanDecode(c)
    /\ LET r == DecodeRequest(inbox[c])
       IN  /\ r.type \notin RegistryTypes \cup {Malformed.type}
           /\ ~(getRouteCase /\ r.type = "get_route")
           /\ Proceed(c, r,
                      CASE r.type = "ping" -> Ok(<<"pong">>)
                        [] r.type = "stop" -> Ok(<<>>)
                        [] OTHER -> Err("unknown message type"),
                      {})
           /\ stopReq' = (stopReq \/ r.type = "stop")
    /\ inbox' = [inbox EXCEPT ![c] = Tail(@)]
    /\ UNCHANGED <<supState, livePids, menu, connOpen, sent, budget, hfd, diskVars, proxyVars>>

\* The case of handleRequest for get_route that Client.GetRoute and handleRun
\* call: Registry.GetRoute (registry.go 203-217) and the response {port}.
HandleGetRoute(c) ==
    /\ CanDecode(c)
    /\ getRouteCase
    /\ LET r == DecodeRequest(inbox[c])
           nh == normalizeHost(r.host)
       IN  /\ r.type = "get_route"
           /\ \E loaded \in Load(regDir, regData, RoutesPath) :
                Proceed(c, r,
                        IF loaded.err THEN Err("load")
                        ELSE Ok(<<IF nh \in DOMAIN loaded.map THEN loaded.map[nh] ELSE 0>>),
                        {})
    /\ inbox' = [inbox EXCEPT ![c] = Tail(@)]
    /\ UNCHANGED <<envVars, connOpen, sent, budget, hfd, diskVars, proxyVars>>

\* The first registry call of handleUpsertRoute, handleListRoutes,
\* handleSetProcess, handleClearProcess, handleGetProcess and handleStatus, up to
\* and including its load of the file: UpsertRoute 191-198, ListRoutes 221,
\* SetProcess 239-250, ClearProcess 257-262, CleanupStaleProcesses 311-322.
AfterLoad(r, loaded) ==
    CASE r.type = "upsert_route" ->
            IF loaded.err THEN Err("load")
            ELSE Go("saveOpen", Put(loaded.map, normalizeHost(r.host), r.port))
      [] r.type = "list_routes" ->
            IF loaded.err THEN Err("load") ELSE Ok(<<loaded.map>>)
      [] r.type = "set_process" ->
            IF loaded.err THEN Err("load")
            ELSE Go("saveOpen", Put(loaded.map, r.root, Proc(r.pid, r.host, r.port)))
      [] r.type = "clear_process" ->
            IF loaded.err THEN Err("load")
            ELSE Go("saveOpen", Delete(loaded.map, {r.root}))
      [] OTHER ->
            \* get_process, status: a failed cleanup is logged, the request goes on
            IF loaded.err \/ StaleRoots(loaded.map) = {} THEN Go("lookup", NoMap)
            ELSE Go("saveOpen", Delete(loaded.map, StaleRoots(loaded.map)))

HandleLoad(c) ==
    /\ CanDecode(c)
    /\ LET r == DecodeRequest(inbox[c])
       IN  /\ r.type \in RegistryTypes
           /\ \E loaded \in Load(regDir, regData, FileOf(r.type)) :
                Proceed(c, r, AfterLoad(r, loaded), {})
    /\ inbox' = [inbox EXCEPT ![c] = Tail(@)]
    /\ UNCHANGED <<envVars, connOpen, sent, budget, hfd, diskVars, proxyVars>>

\* saveRoutes 128 / saveProcesses 175, first half of os.WriteFile: the .tmp file
\* is opened with O_WRONLY|O_CREATE|O_TRUNC.
SaveOpen(c) ==
    /\ Busy(c, "saveOpen")
    /\ LET tmp == TmpOf(FileOf(hreq[c].type))
           i == IF regDir[tmp] # 0 THEN regDir[tmp] ELSE FreshRegInode
       IN  /\ regDir' = [regDir EXCEPT ![tmp] = i]
           /\ regData' = [regData EXCEPT ![i] = TruncFile]
           /\ hfd' = [hfd EXCEPT ![c] = i]
    /\ hpc' = [hpc EXCEPT ![c] = "saveWrite"]
    /\ UNCHANGED <<hreq, hmap, envVars, connVars, respVars, proxyVars, histVars>>

\* Second half of os.WriteFile: the marshalled map is written through the
\* descriptor and the descriptor is closed.
SaveWrite(c) ==
    /\ Busy(c, "saveWrite")
    /\ hfd' = [hfd EXCEPT ![c] = 0]
    /\ regData' = RegReclaimed([regData EXCEPT ![hfd[c]] = Marshal(hmap[c])], regDir, hfd')
    /\ hpc' = [hpc EXCEPT ![c] = "saveRename"]
    /\ UNCHANGED <<regDir, hreq, hmap, envVars, connVars, respVars, proxyVars, histVars>>

\* What the caller of saveRoutes / saveProcesses does with its result:
\* handleUpsertRoute goes on to reload, SetProcess and ClearProcess return it,
\* the cleanup's error is logged and the lookup follows.
AfterSave(r, renamed) ==
    CASE r.type = "upsert_route" -> IF renamed THEN Go("reload", NoMap) ELSE Err("save")
      [] r.type \in {"set_process", "clear_process"} -> IF renamed THEN Ok(<<>>) ELSE Err("save")
      [] OTHER -> Go("lookup", NoMap)

\* saveRoutes 133-137 / saveProcesses 180-184: os.Rename(tmp, path); when it
\* fails (no .tmp file any more) os.Remove(tmp) finds nothing to remove.
SaveRename(c) ==
    /\ Busy(c, "saveRename")
    /\ LET r == hreq[c]
           path == FileOf(r.type)
           tmp == TmpOf(path)
           renamed == regDir[tmp] # 0
       IN  /\ regDir' = IF renamed THEN [regDir EXCEPT ![path] = regDir[tmp], ![tmp] = 0]
                        ELSE regDir
           /\ regData' = RegReclaimed(regData, regDir', hfd)
           /\ Proceed(c, r, AfterSave(r, renamed),
                      IF renamed /\ r.type \in SweepTypes THEN Roots \ DOMAIN hmap[c] ELSE {})
    /\ UNCHANGED <<envVars, connVars, hfd, proxyVars>>

\* handleUpsertRoute 326-329: d.registry.loadRoutes() after the upsert.
Reload(c) ==
    /\ Busy(c, "reload")
    /\ \E loaded \in Load(regDir, regData, RoutesPath) :
            Proceed(c, hreq[c], IF loaded.err THEN Err("load") ELSE Go("apply", loaded.map), {})
    /\ UNCHANGED <<envVars, connVars, hfd, diskVars, proxyVars>>

\* handleUpsertRoute 332-339: d.proxy.ApplyRoutes(routes) and the response
\* (d.proxy is the proxy handleDaemon has started).
Apply(c) ==
    /\ Busy(c, "apply")
    /\ \E loadFails \in BOOLEAN :
            LET applied == ApplyRoutes(hmap[c], loadFails)
            IN  /\ pRoutes' = applied.routes
                /\ caddy' = applied.caddy
                /\ applyFailed' = applied.err
                /\ Proceed(c, hreq[c], IF applied.err THEN Err("apply") ELSE Ok(<<>>), {})
    /\ UNCHANGED <<pRunning, envVars, connVars, hfd, diskVars>>

\* handleGetProcess 386-392: GetProcess after the cleanup; handleStatus 418-421:
\* ListRoutes after the cleanup.
AfterLookup(r, loaded) ==
    IF loaded.err THEN Err("load")
    ELSE IF r.type = "status" THEN Go("lookup2", loaded.map)
    ELSE Ok(<<IF r.root \in DOMAIN loaded.map THEN loaded.map[r.root] ELSE NoProc>>)

Lookup(c) ==
    /\ Busy(c, "lookup")
    /\ \E loaded \in Load(regDir, regData,
                          IF hreq[c].type = "status" THEN RoutesPath ELSE ProcessesPath) :
            Proceed(c, hreq[c], AfterLookup(hreq[c], loaded), {})
    /\ UNCHANGED <<envVars, connVars, hfd, diskVars, proxyVars>>

\* handleStatus 423-434: ListProcesses and the response.
Lookup2(c) ==
    /\ Busy(c, "lookup2")
    /\ \E loaded \in Load(regDir, regData, ProcessesPath) :
            Proceed(c, hreq[c],
                    IF loaded.err THEN Err("load") ELSE Ok(<<hmap[c], loaded.map>>), {})
    /\ UNCHANGED <<envVars, connVars, hfd, diskVars, proxyVars>>

(***************************************************************************)
(* Clients, the Supervisor process, the dev processes                      *)
(***************************************************************************)
\* A client connects to ctl.sock and acceptLoop starts a handler for it.
ClientConnect(c) ==
    /\ supState = "serving"
    /\ ~connOpen[c]
    /\ \A d \in Conns : d < c => connOpen[d]
    /\ budget > 0
    /\ connOpen' = [connOpen EXCEPT ![c] = TRUE]
    /\ UNCHANGED <<inbox, sent, budget, envVars, diskVars, respVars, handlerVars, proxyVars, histVars>>

\* A client writes a request on its connection, whether or not the earlier
\* ones were answered.
ClientSend(c, r) ==
    /\ connOpen[c]
    /\ budget > 0
    /\ r \in menu
    /\ inbox' = [inbox EXCEPT ![c] = Append(@, Numbered(r, sent[c] + 1))]
    /\ sent' = [sent EXCEPT ![c] = @ + 1]
    /\ budget' = budget - 1
    /\ UNCHANGED <<connOpen, envVars, diskVars, respVars, handlerVars, proxyVars, histVars>>

\* The Supervisor process ends: its goroutines, its connections and the
\* embedded proxy go with it; the files stay as they are.
ProcessGone ==
    /\ supState' = "down"
    /\ stopReq' = FALSE
    /\ connOpen' = [c \in Conns |-> FALSE]
    /\ inbox' = [c \in Conns |-> <<>>]
    /\ sent' = [c \in Conns |-> 0]
    /\ nresp' = [c \in Conns |-> 0]
    /\ lastResp' = NoResp
    /\ hpc' = [c \in Conns |-> "read"]
    /\ hreq' = [c \in Conns |-> Numbered(NoReq, 0)]
    /\ hmap' = [c \in Conns |-> NoMap]
    /\ hfd' = [c \in Conns |-> 0]
    /\ regData' = RegReclaimed(regData, regDir, hfd')
    /\ pRunning' = FALSE
    /\ pRoutes' = EmptyMap
    /\ caddy' = NoConfig
    /\ applyFailed' = FALSE
    /\ clean' = FALSE
    /\ ackR' = NoAckR
    /\ ackP' = NoAckP
    /\ lastAck' = NoLastAck
    /\ UNCHANGED <<regDir, livePids, menu, budget, base>>

\* handleDaemon 188-195: proxy.New() and p.Start(ctx), which loads the
\* configuration built from the empty snapshot.
SupStart ==
    /\ supState = "down"
    /\ supState' = "starting"
    /\ pRunning' = TRUE
    /\ pRoutes' = EmptyMap
    /\ caddy' = buildConfigJSON(EmptyMap)
    /\ crashed' = FALSE
    /\ UNCHANGED <<applyFailed, stopReq, livePids, menu, diskVars, connVars, respVars,
                   handlerVars, base, clean, ackR, ackP, lastAck>>

\* Daemon.Start that loads the routes and opens the socket without handing
\* the routes to the proxy.
loadWithoutApply ==
    /\ supState = "starting"
    /\ \E loaded \in Load(regDir, regData, RoutesPath) :
            IF loaded.err
            THEN ProcessGone /\ UNCHANGED crashed
            ELSE /\ supState' = "serving"
                 /\ UNCHANGED <<pRoutes, caddy>>
                 /\ UNCHANGED <<pRunning, applyFailed, stopReq, livePids, menu, diskVars,
                                connVars, respVars, handlerVars, histVars>>

\* Daemon.Start 154-156 and 165-200, loadAndApplyRoutes 113-128: the routes are
\* loaded and handed to the proxy, then the socket is opened. When the load or
\* the apply fails Start returns the error and the process exits.
loadAndApplyRoutes ==
    /\ supState = "starting"
    /\ \E loaded \in Load(regDir, regData, RoutesPath) : \E loadFails \in BOOLEAN :
            LET applied == ApplyRoutes(loaded.map, loadFails)
            IN  IF loaded.err \/ applied.err
                THEN ProcessGone /\ UNCHANGED crashed
                ELSE /\ supState' = "serving"
                     /\ pRoutes' = applied.routes
                     /\ caddy' = applied.caddy
                     /\ UNCHANGED <<pRunning, applyFailed, stopReq, livePids, menu, diskVars,
                                    connVars, respVars, handlerVars, histVars>>

\* handleStop 452-455, Daemon.Start 207-226, handleDaemon: Shutdown ends the
\* select, Start returns, the process exits; handlers still at work end with it.
SupStop ==
    /\ supState = "serving"
    /\ stopReq
    /\ ProcessGone
    /\ UNCHANGED crashed

\* The Supervisor is killed.
SupCrash ==
    /\ supState # "down"
    /\ ProcessGone
    /\ crashed' = TRUE

\* A dev process exits.
ChildExit(pid) ==
    /\ pid \in livePids
    /\ livePids' = livePids \ {pid}
    /\ UNCHANGED <<supState, stopReq, menu, diskVars, connVars, respVars, handlerVars,
                   proxyVars, histVars>>

(***************************************************************************)
(* internal/project                                                        *)
(***************************************************************************)
UpperCase ==
    <<"A", "B", "C", "D", "E", "F", "G", "H", "I", "J", "K", "L", "M",
      "N", "O", "P", "Q", "R", "S", "T", "U", "V", "W", "X", "Y", "Z">>
LowerCase ==
    <<"a", "b", "c", "d", "e", "f", "g", "h", "i", "j", "k", "l", "m",
      "n", "o", "p", "q", "r", "s", "t", "u", "v", "w", "x", "y", "z">>

\* strings.ToLower on one character (the names of the model are ASCII).
ToLowerChar(ch) ==
    IF \E i \in DOMAIN UpperCase : UpperCase[i] = ch
    THEN LowerCase[CHOOSE i \in DOMAIN UpperCase : UpperCase[i] = ch]
    ELSE ch

ToLower(s) == [i \in DOMAIN s |-> ToLowerChar(s[i])]

\* The class [a-z0-9-] of the first expression of normalizeName.
IsLabelChar(ch) ==
    \/ \E i \in DOMAIN LowerCase : LowerCase[i] = ch
    \/ IsDigit(ch)
    \/ ch = "-"

\* The two expressions of normalizeName: `[^a-z0-9-]+` and `-+`.
NotLabelChars == "[^a-z0-9-]+"
Dashes == "-+"

\* The character is of the class the expression repeats.
InClass(re, ch) == IF re = Dashes THEN ch = "-" ELSE ~IsLabelChar(ch)

\* s without its longest prefix of characters of the class.
RECURSIVE SkipRun(_, _)
SkipRun(s, re) ==
    IF s # <<>> /\ InClass(re, Head(s)) THEN SkipRun(Tail(s), re) ELSE s

\* regexp.MustCompile(re).ReplaceAllString(s, "-"): every longest run of
\* characters of the class becomes one dash.
RECURSIVE ReplaceAllString(_, _)
ReplaceAllString(s, re) ==
    IF s = <<>> THEN <<>>
    ELSE IF InClass(re, Head(s)) THEN <<"-">> \o ReplaceAllString(SkipRun(s, re), re)
    ELSE <<Head(s)>> \o ReplaceAllString(Tail(s), re)

\* strings.Trim(s, "-")
RECURSIVE TrimDashesRight(_)
TrimDashesRight(s) ==
    IF s # <<>> /\ s[Len(s)] = "-" THEN TrimDashesRight(SubSeq(s, 1, Len(s) - 1)) ELSE s

TrimDashes(s) == TrimDashesRight(SkipRun(s, Dashes))

\* normalizeName with the dashes trimmed before the other characters are
\* replaced.
normalizeNameTrimFirst(name) ==
    ReplaceAllString(ReplaceAllString(TrimDashes(ToLower(name)), NotLabelChars), Dashes)

\* normalizeName, lines 78-94: lower case, runs of other characters to a dash,
\* runs of dashes to one dash, dashes trimmed at both ends.
normalizeName(name) ==
    TrimDashes(ReplaceAllString(ReplaceAllString(ToLower(name), NotLabelChars), Dashes))

(***************************************************************************)
(* internal/port                                                           *)
(***************************************************************************)
minPort == 10240
maxPort == 49151
avoidPorts == {3000, 4000, 4321, 5000, 5173, 8000, 8080, 8787, 9229}

\* The range taken up to maxPort from 0, not from minPort.
portRangeFromZero == maxPort + 1

portRange == maxPort - minPort + 1

\* The project name of the Orchestrator that is followed: a name is the
\* sequence of its characters.
RunName == <<"a">>

Blog == <<"b", "l", "o", "g">>
App18027 == <<"a", "p", "p", "-", "1", "8", "0", "2", "7">>
App51964 == <<"a", "p", "p", "-", "5", "1", "9", "6", "4">>

\* Names StablePort is called with.
ProjectNames == {RunName, Blog, App18027, App51964}

\* hash[:4] of sha256.Sum256([]byte(name)).
Sha256Prefix(name) ==
    CASE name = <<>> -> <<227, 176, 196, 66>>
      [] name = <<"A">> -> <<85, 154, 234, 208>>
      [] name = RunName -> <<202, 151, 129, 18>>
      [] name = Blog -> <<222, 245, 62, 149>>
      [] name = App18027 -> <<39, 245, 183, 254>>
      [] name = App51964 -> <<140, 80, 23, 255>>

\* hash[:4] for the name StablePort is called with.
HashBytes == Sha256Prefix(pname)

\* The four bytes read with the lowest byte first (binary.LittleEndian).
Uint32ModLittleEndian(bytes, m, acc) ==
    (bytes[4] * ((2^24) % m) + bytes[3] * ((2^16) % m) + bytes[2] * 256 + bytes[1]) % m

\* binary.BigEndian.Uint32(bytes) % m, reduced byte by byte (the unsigned value
\* itself does not fit a signed 32-bit integer).
RECURSIVE Uint32Mod(_, _, _)
Uint32Mod(bytes, m, acc) ==
    IF bytes = <<>> THEN acc
    ELSE Uint32Mod(Tail(bytes), m, (acc * 256 + Head(bytes)) % m)

initialPort == minPort + Uint32Mod(HashBytes, portRange, 0)

\* IsPortFree that never finds a port taken.
IsPortFreeUnchecked(port) == port = port

\* IsPortFree: net.Listen on the port succeeds.
IsPortFree(port) == port \notin busy

\* The probing loop of StablePort; 0 stands for its error.
RECURSIVE Probe(_, _)
Probe(port, attempts) ==
    IF attempts >= portRange THEN 0
    ELSE IF port \notin avoidPorts /\ IsPortFree(port) THEN port
    ELSE LET next == IF port + 1 > maxPort THEN minPort ELSE port + 1
         IN  IF next = initialPort THEN 0 ELSE Probe(next, attempts + 1)

StablePort == Probe(initialPort, 0)

(***************************************************************************)
(* cmd/faa handleRun (the Orchestrator) and internal/devproc               *)
(***************************************************************************)
ExitSuccess == 0
ExitError == 1

\* proj.Host() of the project followed: its normalized name, without ".local".
\* The names of the projects that `run` is followed for have one label of one
\* character or are empty, so that the name as a sequence of characters is the
\* host as a sequence of labels: HostA for the name "a", NoHost for "".
RunHost == pname

\* devproc.Process: no process, and the process started with a PID.
NoChild == [pid |-> 0, exited |-> FALSE, status |-> 0, termed |-> FALSE]
Started(pid) == [pid |-> pid, exited |-> FALSE, status |-> 0, termed |-> FALSE]

\* The PID the kernel gives the dev process of this invocation.
SpawnPid == ChildPid + (runs - 1)

\* Exit statuses a dev process ends with on its own; cmd.Wait gives a nil error
\* for 0 only. A process ended by SIGTERM has ExitCode() -1.
ExitStatuses == {0, 2}
Signaled == 0 - 1

\* The test of the error of unix.Kill(pid, 0) the wrong way round.
IsAliveInverted(pid) == pid > 0 /\ pid \notin livePids

\* devproc.IsAlive
IsAlive(pid) == pid > 0 /\ pid \in livePids

\* Positions of handleRun at which it calls the Supervisor through the client.
Calls == {"getProcess", "clearDead", "getRoute", "upsertRoute", "setProcess", "clearProcess"}

\* The request the client method called at a position writes.
RequestOf(call) ==
    CASE call = "getProcess" -> GetProcess(Root)
      [] call = "clearDead" -> ClearProcess(Root)
      [] call = "getRoute" -> GetRoute(RunHost)
      [] call = "upsertRoute" -> UpsertRoute(RunHost, rport)
      [] call = "setProcess" -> SetProcess(Root, child.pid, RunHost, rport)
      [] OTHER -> ClearProcess(Root)

\* What a client method gets when the connection is gone: sendRequest fails.
CallFailed == [ok |-> FALSE, data |-> <<>>]

\* handleRun returns `code` (the deferred calls follow at "exit").
Ret(code) ==
    /\ rpc' = "exit"
    /\ rexit' = <<code>>
    /\ UNCHANGED <<rproc, rport>>

\* handleRun goes on at `next`.
To(next) ==
    /\ rpc' = next
    /\ UNCHANGED <<rproc, rport, rexit>>

\* Lines 398-410: reuse the port of the route, else compute the stable port.
PickPort(existingPort) == IF existingPort > 0 THEN existingPort ELSE StablePort

\* What handleRun does with the result of the client call made at `call`:
\* lines 370-389 (GetProcess, ClearProcess of a dead entry), 392-410 (GetRoute
\* and the choice of the port), 416-419 (UpsertRoute), 430-443 (SetProcess),
\* 452-463 (ClearProcess after the wait and the exit status).
RunAfter(call, resp) ==
    CASE call = "getProcess" ->
            IF ~resp.ok THEN Ret(ExitError)
            ELSE IF resp.data[1] = NoProc THEN To("getRoute")
            ELSE /\ rpc' = "checkAlive"
                 /\ rproc' = resp.data[1]
                 /\ UNCHANGED <<rport, rexit>>
      [] call = "clearDead" ->
            IF ~resp.ok THEN Ret(ExitError) ELSE To("getRoute")
      [] call = "getRoute" ->
            IF ~resp.ok \/ PickPort(resp.data[1]) = 0 THEN Ret(ExitError)
            ELSE /\ rpc' = "upsertRoute"
                 /\ rport' = PickPort(resp.data[1])
                 /\ UNCHANGED <<rproc, rexit>>
      [] call = "upsertRoute" ->
            IF ~resp.ok THEN Ret(ExitError) ELSE To("spawn")
      [] call = "setProcess" ->
            IF ~resp.ok THEN To("stopChild") ELSE To("wait")
      [] OTHER ->
            \* a failed ClearProcess is a warning; err is the result of the wait
            Ret(IF child.status = 0 THEN ExitSuccess ELSE ExitError)

\* `faa run -- <command>` is started in the project; lines 300-353 (the project
\* lock is followed in SpecLock).
RunLaunch ==
    /\ rpc \in {"idle", "done", "killed"}
    /\ runs < MaxRuns
    /\ runs' = runs + 1
    /\ rpc' = "ensure"
    /\ rwait' = FALSE
    /\ rproc' = NoProc
    /\ rport' = 0
    /\ rexit' = <<>>
    /\ child' = NoChild
    /\ UNCHANGED <<getRouteCase, rconn, orphans, busy, daemonVars>>

\* ensureDaemonRunning: the ping is answered, at once or while polling after
\* startDaemonInBackground.
RunEnsureOk ==
    /\ rpc = "ensure"
    /\ supState = "serving"
    /\ To("connect")
    /\ UNCHANGED <<getRouteCase, rwait, rconn, runs, child, orphans, busy, daemonVars>>

\* ensureDaemonRunning: no Supervisor answers within daemonStartupTimeout.
RunEnsureTimeout ==
    /\ rpc = "ensure"
    /\ supState # "serving"
    /\ Ret(ExitError)
    /\ UNCHANGED <<getRouteCase, rwait, rconn, runs, child, orphans, busy, daemonVars>>

\* daemon.Connect(), lines 362-367.
RunConnect ==
    /\ rpc = "connect"
    /\ IF supState = "serving"
       THEN \E c \in Conns :
                /\ ~connOpen[c]
                /\ \A d \in Conns : d < c => connOpen[d]
                /\ connOpen' = [connOpen EXCEPT ![c] = TRUE]
                /\ rconn' = c
                /\ To("getProcess")
       ELSE /\ Ret(ExitError)
            /\ UNCHANGED <<connOpen, rconn>>
    /\ UNCHANGED <<getRouteCase, rwait, runs, child, orphans, busy>>
    /\ UNCHANGED <<inbox, sent, budget, envVars, diskVars, respVars, handlerVars, proxyVars,
                   histVars>>

\* Client.sendRequest, EncodeRequest: the request is written on the connection;
\* on a broken connection sendRequest returns the error.
RunSend ==
    /\ rpc \in Calls
    /\ ~rwait
    /\ IF rconn # 0
       THEN /\ inbox' = [inbox EXCEPT ![rconn] =
                            Append(@, Numbered(RequestOf(rpc), sent[rconn] + 1))]
            /\ sent' = [sent EXCEPT ![rconn] = @ + 1]
            /\ rwait' = TRUE
            /\ UNCHANGED <<rpc, rproc, rport, rexit>>
       ELSE /\ RunAfter(rpc, CallFailed)
            /\ UNCHANGED <<inbox, sent, rwait>>
    /\ UNCHANGED <<getRouteCase, rconn, runs, child, orphans, busy>>
    /\ UNCHANGED <<connOpen, budget, envVars, diskVars, respVars, handlerVars, proxyVars,
                   histVars>>

\* Client.sendRequest, DecodeResponse: the Supervisor has gone while the
\* response was awaited.
RunCallBroken ==
    /\ rpc \in Calls
    /\ rwait
    /\ rconn = 0
    /\ RunAfter(rpc, CallFailed)
    /\ rwait' = FALSE
    /\ UNCHANGED <<getRouteCase, rconn, runs, child, orphans, busy, daemonVars>>

\* Client.sendRequest, DecodeResponse: the step of the handler of c that writes
\* a response hands it to the Orchestrator when c is its connection.
RunReact(c) ==
    IF c = rconn /\ rwait /\ nresp'[c] = nresp[c] + 1
    THEN /\ RunAfter(rpc, [ok |-> lastResp'.ok, data |-> lastResp'.data])
         /\ rwait' = FALSE
         /\ UNCHANGED <<getRouteCase, rconn, runs, child, orphans, busy>>
    ELSE UNCHANGED runVars

\* Lines 377-383: devproc.IsAlive(existingProc.PID); "Already running".
RunCheckAlive ==
    /\ rpc = "checkAlive"
    /\ IF IsAlive(rproc.pid) THEN Ret(ExitSuccess) ELSE To("clearDead")
    /\ UNCHANGED <<getRouteCase, rwait, rconn, runs, child, orphans, busy, daemonVars>>

\* Line 422, devproc.StartWithSignalHandler -> Start: cmd.Start() starts the
\* command in a process group of its own, or fails.
RunSpawn ==
    /\ rpc = "spawn"
    /\ \E started \in BOOLEAN :
            IF started
            THEN /\ child' = Started(SpawnPid)
                 /\ livePids' = livePids \cup {SpawnPid}
                 /\ To("setProcess")
            ELSE /\ Ret(ExitError)
                 /\ UNCHANGED <<child, livePids>>
    /\ UNCHANGED <<getRouteCase, rwait, rconn, runs, orphans, busy>>
    /\ UNCHANGED <<supState, stopReq, menu, diskVars, connVars, respVars, handlerVars,
                   proxyVars, histVars>>

\* Process.Stop without the unix.Kill.
ProcessStopNoSignal(proc) == proc

\* Process.Stop: SIGTERM to the process group; ESRCH when it is gone already.
ProcessStop(proc) == [proc EXCEPT !.termed = (@ \/ proc.pid \in livePids)]

\* Lines 436-443: SetProcess failed; proc.Stop() and return ExitError.
RunStopChild ==
    /\ rpc = "stopChild"
    /\ child' = ProcessStop(child)
    /\ Ret(ExitError)
    /\ UNCHANGED <<getRouteCase, rwait, rconn, runs, orphans, busy, daemonVars>>

\* The goroutine of StartWithSignalHandler: the Orchestrator receives SIGINT or
\* SIGTERM and stops the dev process.
RunSignal ==
    /\ rpc \in {"setProcess", "wait", "clearProcess", "stopChild"}
    /\ ~child.termed
    /\ ~child.exited
    /\ child' = ProcessStop(child)
    /\ child' # child
    /\ UNCHANGED <<getRouteCase, rpc, rwait, rconn, rproc, rport, rexit, runs, orphans, busy,
                   daemonVars>>

\* Line 449: err = <-proc.Wait returns once the dev process has exited.
RunWait ==
    /\ rpc = "wait"
    /\ child.exited
    /\ To("clearProcess")
    /\ UNCHANGED <<getRouteCase, rwait, rconn, runs, child, orphans, busy, daemonVars>>

\* handleRun returns: the deferred client.Close() (line 367) and
\* projectLock.Release() (line 353) run and the process exits.
RunExit ==
    /\ rpc = "exit"
    /\ rpc' = "done"
    /\ rconn' = 0
    /\ orphans' = IF rconn # 0 THEN orphans \cup {rconn} ELSE orphans
    /\ UNCHANGED <<getRouteCase, rwait, rproc, rport, rexit, runs, child, busy, daemonVars>>

\* The Orchestrator is killed (SIGKILL, or a signal it has no handler for): the
\* kernel closes its connection; its dev process, in a group of its own, lives
\* on.
RunKilled ==
    /\ rpc \notin {"idle", "done", "killed"}
    /\ rpc' = "killed"
    /\ rwait' = FALSE
    /\ rconn' = 0
    /\ orphans' = IF rconn # 0 THEN orphans \cup {rconn} ELSE orphans
    /\ rexit' = <<>>
    /\ UNCHANGED <<getRouteCase, rproc, rport, runs, child, busy, daemonVars>>

\* A dev process exits: on its own with some status, or ended by the SIGTERM
\* sent to its group. cmd.Wait of the Orchestrator that started it returns.
DevExit(pid, status) ==
    /\ ChildExit(pid)
    /\ status = Signaled => (pid = child.pid /\ child.termed)
    /\ child' = IF pid = child.pid /\ rpc \notin {"done", "killed"}
                THEN [child EXCEPT !.exited = TRUE, !.status = status]
                ELSE child
    /\ UNCHANGED <<getRouteCase, rpc, rwait, rconn, rproc, rport, rexit, runs, orphans, busy>>

\* handleConnection lines 267-271: DecodeRequest returns io.EOF on a connection
\* the client has closed; the handler returns and conn.Close runs.
HandleEOF(c) ==
    /\ c \in orphans
    /\ supState = "serving"
    /\ connOpen[c]
    /\ hpc[c] = "read"
    /\ inbox[c] = <<>>
    /\ connOpen' = [connOpen EXCEPT ![c] = FALSE]
    /\ sent' = [sent EXCEPT ![c] = 0]
    /\ nresp' = [nresp EXCEPT ![c] = 0]
    /\ lastResp' = IF lastResp.conn = c THEN NoResp ELSE lastResp
    /\ orphans' = orphans \ {c}
    /\ UNCHANGED <<inbox, budget, envVars, diskVars, handlerVars, proxyVars, histVars>>
    /\ UNCHANGED <<getRouteCase, rpc, rwait, rconn, rproc, rport, rexit, runs, child, busy>>

\* The Supervisor process has ended: every connection to it is broken.
RunLosesSupervisor ==
    /\ rconn' = 0
    /\ orphans' = {}
    /\ UNCHANGED <<getRouteCase, rpc, rwait, rproc, rport, rexit, runs, child, busy>>

\* Connections of clients other than the Orchestrator.
OtherConns == {c \in Conns : connOpen[c]} \ ({rconn} \cup orphans)

(***************************************************************************)
(* Initial states and specifications                                       *)
(***************************************************************************)
\* Registry files a run can start with: none; a route and the entry of a dev
\* process that is gone; a processes.json that is not JSON; a routes.json that
\* is not JSON.
FreshDisk == [routes |-> NoFile, procs |-> NoFile]
UsedDisk ==
    [routes |-> Marshal(Put(EmptyMap, HostALocal, PortA)),
     procs  |-> Marshal(Put(EmptyMap, Root, Proc(GonePid, HostALocal, PortA)))]
BrokenProcsDisk == [routes |-> NoFile, procs |-> GarbageFile]
BrokenRoutesDisk == [routes |-> GarbageFile, procs |-> NoFile]
DiskImages == {UsedDisk, BrokenProcsDisk, BrokenRoutesDisk}

\* The requests clients send: those that change the registry and one of each
\* other path through handleConnection ...
MenuReg ==
    { UpsertRoute(HostA, PortA), UpsertRoute(HostBLocal, PortB), GetRoute(HostA),
      SetProcess(Root, ChildPid, HostBLocal, PortB), ClearProcess(Root), Status, Stop,
      Malformed }

\* ... and one request of every type, with lines that are no request.
MenuAll ==
    { Ping, UpsertRoute(HostA, PortA), GetRoute(HostA), ListRoutes,
      SetProcess(Root, ChildPid, HostBLocal, PortB), GetProcess(Root),
      ClearProcess(Root), Status, Stop, Bogus, Malformed }

\* No Supervisor, no client: the daemon part of the state while the lock races
\* are followed.
DaemonIdle ==
    /\ supState = "down"
    /\ stopReq = FALSE
    /\ livePids = {}
    /\ regDir = [n \in RegPaths |-> 0]
    /\ regData = [i \in RegInodes |-> FreeInode]
    /\ menu = {}
    /\ budget = 0
    /\ connOpen = [c \in Conns |-> FALSE]
    /\ inbox = [c \in Conns |-> <<>>]
    /\ sent = [c \in Conns |-> 0]
    /\ nresp = [c \in Conns |-> 0]
    /\ lastResp = NoResp
    /\ hpc = [c \in Conns |-> "read"]
    /\ hreq = [c \in Conns |-> Numbered(NoReq, 0)]
    /\ hmap = [c \in Conns |-> NoMap]
    /\ hfd = [c \in Conns |-> 0]
    /\ pRunning = FALSE
    /\ pRoutes = EmptyMap
    /\ caddy = NoConfig
    /\ applyFailed = FALSE
    /\ base = FreshDisk
    /\ clean = FALSE
    /\ ackR = NoAckR
    /\ ackP = NoAckP
    /\ lastAck = NoLastAck
    /\ crashed = FALSE

\* No Orchestrator runs, no dev process, no port is taken.
OrchIdle ==
    /\ getRouteCase = FALSE
    /\ rpc = "idle"
    /\ rwait = FALSE
    /\ rconn = 0
    /\ rproc = NoProc
    /\ rport = 0
    /\ rexit = <<>>
    /\ runs = 0
    /\ child = NoChild
    /\ orphans = {}
    /\ busy = {}

\* No `faa run` is followed.
RunIdle ==
    /\ decl = RunName
    /\ pname = RunName
    /\ OrchIdle

\* No process near a lock file: the lock part of the state while one Supervisor
\* is followed.
LockIdle ==
    /\ kind = "daemon"
    /\ lockDir = [n \in LockPaths |-> 0]
    /\ inodeData = [i \in Inodes |-> <<>>]
    /\ flockOwner = [i \in Inodes |-> 0]
    /\ pc = [p \in Procs |-> "idle"]
    /\ fd = [p \in Procs |-> 0]
    /\ raced = [p \in Procs |-> FALSE]
    /\ pidFile = 0
    /\ sockFile = 0
    /\ StopIdle

InitDaemon(requests, images) ==
    /\ LockIdle
    /\ supState = "down"
    /\ stopReq = FALSE
    /\ livePids = {ChildPid}
    /\ \E img \in images :
            /\ base = img
            /\ regDir = [n \in RegPaths |->
                            IF n = RoutesPath /\ img.routes.kind # "absent" THEN 1
                            ELSE IF n = ProcessesPath /\ img.procs.kind # "absent" THEN 2
                            ELSE 0]
            /\ regData = [i \in RegInodes |->
                            IF i = 1 /\ img.routes.kind # "absent" THEN img.routes
                            ELSE IF i = 2 /\ img.procs.kind # "absent" THEN img.procs
                            ELSE FreeInode]
    /\ menu = requests
    /\ budget = MaxReq
    /\ connOpen = [c \in Conns |-> FALSE]
    /\ inbox = [c \in Conns |-> <<>>]
    /\ sent = [c \in Conns |-> 0]
    /\ nresp = [c \in Conns |-> 0]
    /\ lastResp = NoResp
    /\ hpc = [c \in Conns |-> "read"]
    /\ hreq = [c \in Conns |-> Numbered(NoReq, 0)]
    /\ hmap = [c \in Conns |-> NoMap]
    /\ hfd = [c \in Conns |-> 0]
    /\ pRunning = FALSE
    /\ pRoutes = EmptyMap
    /\ caddy = NoConfig
    /\ applyFailed = FALSE
    /\ clean = TRUE
    /\ ackR = NoAckR
    /\ ackP = NoAckP
    /\ lastAck = NoLastAck
    /\ crashed = FALSE

Init == InitDaemon(MenuReg, DiskImages) /\ RunIdle

InitConn == InitDaemon(MenuAll, {UsedDisk}) /\ RunIdle

Next ==
    /\ \/ \E c \in Conns :
            \/ ClientConnect(c)
            \/ \E r \in menu : ClientSend(c, r)
            \/ HandleDecodeError(c)
            \/ HandleLocal(c)
            \/ HandleLoad(c)
            \/ SaveOpen(c)
            \/ SaveWrite(c)
            \/ SaveRename(c)
            \/ Reload(c)
            \/ Apply(c)
            \/ Lookup(c)
            \/ Lookup2(c)
       \/ SupStart
       \/ loadAndApplyRoutes
       \/ SupStop
       \/ SupCrash
       \/ \E pid \in livePids : ChildExit(pid)
    /\ UNCHANGED <<lockVars, runVars, stopVars, extVars>>

Spec == Init /\ [][Next]_vars

SpecConn == InitConn /\ [][Next]_vars

InitLock ==
    /\ kind \in {"daemon", "run"}
    /\ \E present \in BOOLEAN : \E data \in LockContents :
            /\ lockDir = [n \in LockPaths |-> IF present /\ n = PathOf(kind) THEN 1 ELSE 0]
            /\ inodeData = [i \in Inodes |-> IF present /\ i = 1 THEN data ELSE <<>>]
    /\ flockOwner = [i \in Inodes |-> 0]
    /\ pc = [p \in Procs |-> "idle"]
    /\ fd = [p \in Procs |-> 0]
    /\ raced = [p \in Procs |-> FALSE]
    /\ pidFile = 0
    /\ sockFile = 0
    /\ DaemonIdle
    /\ RunIdle
    /\ StopIdle

NextLock ==
    /\ UNCHANGED <<daemonVars, runVars, stopVars, extVars>>
    /\ \E p \in Procs :
        \/ Launch(p)
        \/ AcquireOpen(p)
        \/ AcquireFlock(p)
        \/ AcquireCheckStale(p)
        \/ AcquireRemove(p)
        \/ AcquireReopen(p)
        \/ AcquireReflock(p)
        \/ SupWritePidFile(p)
        \/ SupLoadAndApplyRoutes(p)
        \/ SupListen(p)
        \/ SupShutdown(p)
        \/ RunReturn(p)
        \/ ExitAfterLockFailure(p)
        \/ Crash(p)

SpecLock == InitLock /\ [][NextLock]_vars

\* Registry files a `faa run` can find: none, or the route of the project kept
\* from an earlier invocation.
ParkedDisk == [routes |-> Marshal(Put(EmptyMap, HostALocal, PortA)), procs |-> NoFile]
RunDiskImages == {FreshDisk, ParkedDisk}

\* The other clients are `faa status` and `faa stop`.
MenuRun == {Status, Stop}

\* No Supervisor runs and no dev process; the port the hash of the project name
\* gives is taken by another program; the registry files are one of images, the
\* other clients send n requests out of requests, and the Supervisor that will
\* serve has the get_route case or not, as builds says. The history of
\* acknowledgements is not followed. The package.json of the project declares
\* one of names; FindProjectRoot (part_000 27-70) has normalized it.
InitOrchNamed(names, images, requests, n, builds) ==
    /\ LockIdle
    /\ decl \in names
    /\ pname = normalizeName(decl)
    /\ supState = "down"
    /\ stopReq = FALSE
    /\ livePids = {}
    /\ \E img \in images :
            /\ base = img
            /\ regDir = [f \in RegPaths |->
                            IF f = RoutesPath /\ img.routes.kind # "absent" THEN 1
                            ELSE IF f = ProcessesPath /\ img.procs.kind # "absent" THEN 2
                            ELSE 0]
            /\ regData = [i \in RegInodes |->
                            IF i = 1 /\ img.routes.kind # "absent" THEN img.routes
                            ELSE IF i = 2 /\ img.procs.kind # "absent" THEN img.procs
                            ELSE FreeInode]
    /\ menu = requests
    /\ budget = n
    /\ connOpen = [c \in Conns |-> FALSE]
    /\ inbox = [c \in Conns |-> <<>>]
    /\ sent = [c \in Conns |-> 0]
    /\ nresp = [c \in Conns |-> 0]
    /\ lastResp = NoResp
    /\ hpc = [c \in Conns |-> "read"]
    /\ hreq = [c \in Conns |-> Numbered(NoReq, 0)]
    /\ hmap = [c \in Conns |-> NoMap]
    /\ hfd = [c \in Conns |-> 0]
    /\ pRunning = FALSE
    /\ pRoutes = EmptyMap
    /\ caddy = NoConfig
    /\ applyFailed = FALSE
    /\ clean = FALSE
    /\ ackR = NoAckR
    /\ ackP = NoAckP
    /\ lastAck = NoLastAck
    /\ crashed = FALSE
    /\ getRouteCase \in builds
    /\ rpc = "idle"
    /\ rwait = FALSE
    /\ rconn = 0
    /\ rproc = NoProc
    /\ rport = 0
    /\ rexit = <<>>
    /\ runs = 0
    /\ child = NoChild
    /\ orphans = {}
    /\ busy = {initialPort}

InitOrch(images, requests, n, builds) ==
    InitOrchNamed({RunName}, images, requests, n, builds)

InitRun == InitOrch(RunDiskImages, MenuRun, MaxOther, BOOLEAN)

NextRun ==
    /\ UNCHANGED <<lockVars, stopVars, extVars>>
    /\ \/ \E c \in Conns :
            \/ HandleLocal(c) /\ RunReact(c)
            \/ HandleGetRoute(c) /\ RunReact(c)
            \/ HandleLoad(c) /\ RunReact(c)
            \/ SaveOpen(c) /\ UNCHANGED runVars
            \/ SaveWrite(c) /\ UNCHANGED runVars
            \/ SaveRename(c) /\ RunReact(c)
            \/ Reload(c) /\ RunReact(c)
            \/ Apply(c) /\ RunReact(c)
            \/ Lookup(c) /\ RunReact(c)
            \/ Lookup2(c) /\ RunReact(c)
            \/ HandleEOF(c)
            \/ ClientConnect(c) /\ OtherConns = {} /\ UNCHANGED runVars
            \/ \E r \in menu : ClientSend(c, r) /\ c \in OtherConns /\ UNCHANGED runVars
       \/ SupStart /\ UNCHANGED runVars
       \/ loadAndApplyRoutes
            /\ IF supState' = "down" THEN RunLosesSupervisor ELSE UNCHANGED runVars
       \/ SupStop /\ RunLosesSupervisor
       \/ \E pid \in livePids : \E status \in ExitStatuses \cup {Signaled} :
                DevExit(pid, status)
       \/ RunLaunch
       \/ RunEnsureOk
       \/ RunEnsureTimeout
       \/ RunConnect
       \/ RunSend
       \/ RunCallBroken
       \/ RunCheckAlive
       \/ RunSpawn
       \/ RunStopChild
       \/ RunSignal
       \/ RunWait
       \/ RunExit
       \/ RunKilled

SpecRun == InitRun /\ [][NextRun]_vars

\* Another project registers its route while `faa run` is followed for a
\* project whose route was kept from an earlier invocation; the Supervisor has
\* the get_route case.
MenuPorts == {UpsertRoute(HostBLocal, PortB), Stop}
InitPorts == InitOrch({ParkedDisk}, MenuPorts, MaxOther, {TRUE})
SpecPorts == InitPorts /\ [][NextRun]_vars

\* `faa run` is followed for a project whose earlier Orchestrator was killed
\* and whose dev process is gone: the registry has the route and the record of
\* that dev process.
StaleDisk ==
    [routes |-> Marshal(Put(EmptyMap, HostALocal, PortA)),
     procs  |-> Marshal(Put(EmptyMap, Root, Proc(GonePid, RunHost, PortA)))]
InitStale == InitOrch({StaleDisk}, MenuRun, MaxOther, BOOLEAN)
SpecStale == InitStale /\ [][NextRun]_vars

\* Supervisors are started, serve, and are asked to stop by stop requests and
\* signals; daemon.lock is absent or left empty by an earlier one.
InitStop ==
    /\ kind = "daemon"
    /\ \E present \in BOOLEAN :
            /\ lockDir = [n \in LockPaths |-> IF present /\ n = DaemonLock THEN 1 ELSE 0]
            /\ inodeData = [i \in Inodes |-> <<>>]
    /\ flockOwner = [i \in Inodes |-> 0]
    /\ pc = [p \in Procs |-> "idle"]
    /\ fd = [p \in Procs |-> 0]
    /\ raced = [p \in Procs |-> FALSE]
    /\ pidFile = 0
    /\ sockFile = 0
    /\ DaemonIdle
    /\ RunIdle
    /\ StopIdle

NextStop ==
    /\ UNCHANGED <<daemonVars, runVars, extVars>>
    /\ \E p \in Procs :
        \/ Relaunch(p)
        \/ AcquireOpen(p) /\ UNCHANGED stopVars
        \/ AcquireFlock(p) /\ UNCHANGED stopVars
        \/ AcquireCheckStale(p) /\ UNCHANGED stopVars
        \/ ExitAfterLockFailure(p) /\ UNCHANGED stopVars
        \/ SupWritePidFile(p) /\ UNCHANGED stopVars
        \/ SupLoadAndApplyRoutes(p) /\ UNCHANGED stopVars
        \/ SupListen(p) /\ UNCHANGED stopVars
        \/ SupNotify(p)
        \/ StopRequest(p)
        \/ ShutdownCall(p)
        \/ SupSignal(p)
        \/ SupSelect(p)
        \/ SupRemoveSocket(p)
        \/ SupRemovePidFile(p)
        \/ SupRelease(p)
        \/ SupExit(p)

SpecStop == InitStop /\ [][NextStop]_vars

(***************************************************************************)
(* Claims about the locks.                                                 *)
(***************************************************************************)
Supervisors == {p \in Procs : kind = "daemon"}
Orchestrators == {p \in Procs : kind = "run"}

LockFailed(p) == pc[p] = "failed"

\* Acquire has returned to p (with a lock or with an error) and p has not exited.
AcquireReturned(p) == HoldsLock(p) \/ LockFailed(p)

RegistryFiles == {RoutesPath, ProcessesPath}

\* The file the run started with at path.
BaseFile(path) == IF path = RoutesPath THEN base.routes ELSE base.procs

\* The value a map has at a key, `none` when the key is not in it.
ValueAt(m, k, none) == IF k \in DOMAIN m THEN m[k] ELSE none

\* C4: when the Supervisor was killed, whatever it was doing to the registry,
\* routes.json and processes.json each hold what a completed write (or the
\* start of the run) put there: neither is the zero-length leftover of a write
\* that had not written yet, and each parses unless it never did.
C4_CrashLeavesWholeRegistryFiles ==
    crashed =>
        \A path \in RegistryFiles :
            /\ FileAt(regDir, regData, path).kind # "trunc"
            /\ \A l \in Load(regDir, regData, path) :
                    l.err => BaseFile(path).kind = "garbage"

\* No handler is inside a request.
Quiescent == \A c \in Conns : hpc[c] = "read"

\* The final value of a key after the acknowledged mutations of that key were
\* applied in some order: the value one of them leaves, or the initial value
\* when there was none.
SerialOutcome(acks, initial, final) ==
    IF acks = {} THEN final = initial ELSE final \in acks

\* C5: once all the mutations issued so far have returned success, the persisted
\* routes and processes are what applying them in some serial order gives: for
\* every host and every root the value one of its successful mutations left.
C5_MutationsSerializable ==
    (clean /\ supState = "serving" /\ Quiescent) =>
        /\ \A l \in Load(regDir, regData, RoutesPath) :
                /\ ~l.err
                /\ \A h \in NormHosts :
                        SerialOutcome(ackR[h],
                                      ValueAt(Unmarshal(base.routes).val, h, 0),
                                      ValueAt(l.map, h, 0))
        /\ \A l \in Load(regDir, regData, ProcessesPath) :
                l.err \/ \A r \in Roots :
                            SerialOutcome(ackP[r],
                                          ValueAt(Unmarshal(base.procs).val, r, NoProc),
                                          ValueAt(l.map, r, NoProc))

\* The configuration the proxy serves routes host h to 127.0.0.1:port.
Serves(h, port) == [host |-> h, dial |-> Dial(port)] \in caddy.routes

\* A handler is inside an upsert_route for host h.
UpsertInFlight(h) ==
    \E c \in Conns :
        hpc[c] # "read" /\ hreq[c].type = "upsert_route" /\ normalizeHost(hreq[c].host) = h

\* C6: from the moment upsert_route(host, port) has returned success until the
\* same host is upserted again, the configuration the proxy serves contains
\* host -> port, whatever other connections upsert meanwhile.
C6_AckedRouteStaysServed ==
    \A h \in NormHosts :
        (lastAck[h] # 0 /\ ~UpsertInFlight(h)) => Serves(h, lastAck[h])

\* The step is the handler of c getting the result of ApplyRoutes and writing
\* the response.
ApplyReturns(c) == hpc[c] = "apply" /\ nresp'[c] = nresp[c] + 1

\* C7: when ApplyRoutes on the started proxy fails it returns the error and the
\* snapshot stored in the controller is the one stored before the call.
C7_FailedApplyKeepsSnapshot ==
    [][\A c \in Conns :
            (ApplyReturns(c) /\ applyFailed') =>
                (~lastResp'.ok /\ pRoutes' = pRoutes)]_vars

\* C8: the first ApplyRoutes that succeeds after a failed one leaves the proxy
\* serving exactly the configuration built from the routes the registry holds
\* at that moment.
C8_ApplyAfterFailureMatchesRegistry ==
    [][\A c \in Conns :
            (ApplyReturns(c) /\ applyFailed /\ ~applyFailed') =>
                \A l \in Load(regDir', regData', RoutesPath) :
                    ~l.err /\ caddy' = buildConfigJSON(l.map)]_vars

\* The step is the handler of c answering the get_route request r.
AnswersGetRoute(c, r) ==
    /\ CanDecode(c)
    /\ r = DecodeRequest(inbox[c])
    /\ r.type = "get_route"
    /\ nresp'[c] = nresp[c] + 1

\* C9: a get_route request for host h is answered with success and the port
\* registered for normalizeHost(h), 0 when there is none.
C9_GetRouteReturnsPort ==
    [][\A c \in Conns : \A r \in {Numbered(GetRoute(HostA), i) : i \in 1 .. MaxReq} :
            AnswersGetRoute(c, r) =>
                /\ lastResp'.ok
                /\ \E l \in Load(regDir, regData, RoutesPath) :
                        /\ ~l.err
                        /\ lastResp'.data = <<ValueAt(l.map, normalizeHost(r.host), 0)>>]_vars

\* Requests of connection c the handler has taken from the stream.
Decoded(c) == sent[c] - Len(inbox[c])

\* C10: on every open connection the responses written so far are one for each
\* request the handler is done with, the request it works on is the next one of
\* the stream, and the response written last answers the request at its own
\* position in the stream.
C10_ResponsesMatchRequestsInOrder ==
    \A c \in Conns :
        connOpen[c] =>
            /\ nresp[c] = Decoded(c) - (IF hpc[c] = "read" THEN 0 ELSE 1)
            /\ hpc[c] # "read" => hreq[c].id = nresp[c] + 1
            /\ lastResp.conn = c => lastResp.req.id = nresp[c]

\* A response was written on a connection while its handler is busy with the
\* next request and a further one is already waiting behind it.
C10_Witness ==
    \E c \in Conns :
        /\ connOpen[c]
        /\ nresp[c] >= 1
        /\ hpc[c] # "read"
        /\ Len(inbox[c]) >= 1
        /\ lastResp.conn = c

\* The records processes.json holds (none when the file does not parse).
ProcessesOn(dir, data) ==
    LET l == CHOOSE x \in Load(dir, data, ProcessesPath) : TRUE
    IN  IF l.err THEN EmptyMap ELSE l.map

\* The step is the handler of c working on the processes file for the sweep of
\* a get_process or status request (CleanupStaleProcesses, saveProcesses).
SweepWrites(c) ==
    /\ hreq[c].type \in SweepTypes
    /\ hpc[c] \in {"saveOpen", "saveWrite", "saveRename"}
    /\ hpc'[c] # hpc[c]
    /\ supState' = "serving"

\* The step is the handler of c writing the response to a get_process or status
\* request.
SweepReplies(c) ==
    /\ hreq[c].type \in SweepTypes
    /\ hpc[c] \in {"lookup", "lookup2"}
    /\ nresp'[c] = nresp[c] + 1

\* C11: when a status or get_process request has been handled no record is left
\* whose PID belongs to no process (a process that existed when the run began
\* may have exited while the request was handled), and no step of the sweep
\* takes away a record whose PID is alive.
C11_SweepRemovesExactlyStaleRecords ==
    [][\A c \in Conns :
            /\ SweepReplies(c) =>
                    \A k \in DOMAIN ProcessesOn(regDir', regData') :
                        LET pid == ProcessesOn(regDir', regData')[k].pid
                        IN  isProcessAlive(pid) \/ pid \in DevPids
            /\ SweepWrites(c) =>
                    \A k \in DOMAIN ProcessesOn(regDir, regData) :
                        isProcessAlive(ProcessesOn(regDir, regData)[k].pid) =>
                            /\ k \in DOMAIN ProcessesOn(regDir', regData')
                            /\ ProcessesOn(regDir', regData')[k] =
                                    ProcessesOn(regDir, regData)[k]]_vars

\* The hosts routes.json has a route for (none when the file does not parse).
RouteHosts(dir, data) ==
    LET l == CHOOSE x \in Load(dir, data, RoutesPath) : TRUE
    IN  IF l.err THEN {} ELSE DOMAIN l.map

\* C14: no step of the Supervisor, of a client or of a dev process (the
\* handling of ping, upsert_route, get_route, list_routes, set_process,
\* get_process, clear_process, status and stop, a stale sweep, a child exit, a
\* Supervisor exit or restart) removes a host from the route map; the
\* Supervisor has no operation that clears routes.
C14_RoutesAreNeverRemoved ==
    [][RouteHosts(regDir, regData) \subseteq RouteHosts(regDir', regData')]_vars

(***************************************************************************)
(* Claims about `faa run`.                                                 *)
(***************************************************************************)
\* The port routes.json has for host h, 0 when it has none.
RoutePort(dir, data, h) ==
    LET l == CHOOSE x \in Load(dir, data, RoutesPath) : TRUE
    IN  IF ~l.err /\ h \in DOMAIN l.map THEN l.map[h] ELSE 0

\* C12: the host a.local has port PortA registered from an earlier invocation
\* and no unrelated listener ever holds PortA; across the runs, child exits
\* and Supervisor restarts that follow, the port registered for a.local,
\* whenever one is registered, is PortA.
C12_RegisteredPortIsStable ==
    LET port == RoutePort(regDir, regData, HostALocal)
    IN  (base = ParkedDisk /\ PortA \notin busy /\ port # 0) => port = PortA

\* The project roots whose record in processes.json names host h (h normalized).
Referrers(dir, data, h) ==
    {k \in DOMAIN ProcessesOn(dir, data) :
        normalizeHost(ProcessesOn(dir, data)[k].host) = h}

\* C13: in every state of the registry files each route is referenced by one
\* record whose PID is alive or by no record: never by a record whose PID
\* belongs to no process, never by two records.
C13_RouteHasOneLiveRecordOrNone ==
    \A h \in RouteHosts(regDir, regData) :
        /\ Cardinality(Referrers(regDir, regData, h)) <= 1
        /\ \A k \in Referrers(regDir, regData, h) :
                isProcessAlive(ProcessesOn(regDir, regData)[k].pid)

\* The first `faa run` is under way and nothing but it has changed the registry
\* files it was started with: a route for the host of the project and a record
\* of the project whose PID belongs to no process.
FirstRunOnStale ==
    /\ base = StaleDisk
    /\ budget = MaxOther
    /\ runs = 1

\* C16: started with a record of the project whose PID is dead and with a route
\* for its host, `run` does not give up before the spawn unless no Supervisor
\* answers, the proxy refuses the routes or the command cannot be started, and
\* once set_process has succeeded
\* the record of the project is the one of the new dev process, with the port
\* of the route that was there.
C16_DeadRecordIsReplaced ==
    [][FirstRunOnStale =>
        /\ (rpc # "exit" /\ rpc' = "exit" /\ child' = NoChild)
                => rpc \in {"ensure", "connect", "upsertRoute", "spawn"}
        /\ (rpc = "setProcess" /\ rpc' = "wait")
                => /\ Root \in DOMAIN ProcessesOn(regDir', regData')
                   /\ ProcessesOn(regDir', regData')[Root] = Proc(child.pid, RunHost, PortA)
                   /\ child.pid = SpawnPid]_vars

\* handleRun returns from the ClearProcess call that follows the wait for the
\* dev process it spawned and registered.
ReturnsAfterWait ==
    /\ rpc = "clearProcess"
    /\ rpc' = "exit"
    /\ child.exited

C18_ExitStatusIsTheChilds ==
    [][(rpc # "exit" /\ rpc' = "exit") =>
            IF child' # NoChild
            THEN child'.exited /\ rexit' = <<child'.status>>
            ELSE rpc = "checkAlive" \/ rexit' = <<ExitError>>]_vars

\* The step of handleRun that gets the result of client.SetProcess gets an
\* error: the connection is broken or the response says ok = false.
SetProcessFails ==
    /\ rpc = "setProcess"
    /\ rpc' \notin {"setProcess", "killed"}
    /\ \/ rconn = 0
       \/ nresp'[rconn] = nresp[rconn] + 1 /\ ~lastResp'.ok

AlreadyRunning ==
    /\ rpc \in {"exit", "done"}
    /\ rexit = <<ExitSuccess>>
    /\ child = NoChild

TerminatedWhenAsked(p) == asked[p] /\ pc[p] = "idle"

\* C20: once a Supervisor that was sent a stop request or SIGTERM/SIGINT has
\* terminated, its endpoint file and its daemon.pid are removed and it holds
\* neither the daemon lock nor a descriptor of the lock file.
C20_TerminatedSupervisorLeavesNothing ==
    \A p \in Procs :
        TerminatedWhenAsked(p) =>
            /\ sockFile # p
            /\ pidFile # p
            /\ fd[p] = 0
            /\ \A i \in Inodes : flockOwner[i] # p

\* Supervisor p, which has installed its signal handling and was sent stop
\* requests or signals since, terminates in this step.
EndsAfterStop(p) ==
    /\ notified[p]
    /\ asked[p]
    /\ pc[p] # "idle"
    /\ pc'[p] = "idle"

\* C37: stop requests in any number, with or without a termination signal,
\* end a serving Supervisor in one orderly shutdown: when its process
\* terminates the endpoint file and daemon.pid are removed.
C37_RepeatedStopsShutDownOnce ==
    [][ \A p \in Procs : EndsAfterStop(p) => sockFile' # p /\ pidFile' # p ]_vars

(***************************************************************************)
(* The Supervisor from the shutdown to the exit of its process (SpecShut). *)
(* Daemon.Start returns while the handler goroutines that acceptLoop has   *)
(* started are still there; they end with the process.                     *)
(***************************************************************************)
\* acceptLoop 235-257: a connection is accepted while the listener is open;
\* Daemon.Start closes the listener before it returns.
Accept(c) ==
    /\ ~returned
    /\ ClientConnect(c)
    /\ UNCHANGED returned

\* Daemon.Start 207-226: the select ends on a signal or on the close of
\* d.shutdown (Shutdown 230-232, called by handleStop); cancel() ends the
\* accept loop, the listener is closed, the deferred calls remove the socket
\* and daemon.pid and release the lock, and Start returns nil. Nothing in it
\* touches the accepted connections or the handlers started at line 255.
SupReturns ==
    /\ supState = "serving"
    /\ ~returned
    /\ \E bySignal \in BOOLEAN : bySignal \/ stopReq
    /\ returned' = TRUE
    /\ UNCHANGED daemonVars

\* handleDaemon (main.go 211-219): after Start has returned the deferred
\* p.Stop() runs and main exits with ExitSuccess; the goroutines and the
\* connections of the process end here.
SupExits ==
    /\ returned
    /\ ProcessGone
    /\ returned' = FALSE
    /\ UNCHANGED crashed

\* The Supervisor is killed, before or after Daemon.Start has returned.
SupKilled ==
    /\ SupCrash
    /\ returned' = FALSE

MenuShut == {UpsertRoute(HostA, PortA), GetRoute(HostA), Status, Stop, Malformed}

InitShut == InitDaemon(MenuShut, {UsedDisk}) /\ RunIdle

NextShut ==
    /\ UNCHANGED <<lockVars, runVars, stopVars, decl, pname, labels, calls, probe, unapplied>>
    /\ \/ \E c \in Conns :
            \/ Accept(c)
            \/ (\E r \in menu : ClientSend(c, r)) /\ UNCHANGED returned
            \/ HandleDecodeError(c) /\ UNCHANGED returned
            \/ HandleLocal(c) /\ UNCHANGED returned
            \/ HandleLoad(c) /\ UNCHANGED returned
            \/ SaveOpen(c) /\ UNCHANGED returned
            \/ SaveWrite(c) /\ UNCHANGED returned
            \/ SaveRename(c) /\ UNCHANGED returned
            \/ Reload(c) /\ UNCHANGED returned
            \/ Apply(c) /\ UNCHANGED returned
            \/ Lookup(c) /\ UNCHANGED returned
            \/ Lookup2(c) /\ UNCHANGED returned
       \/ SupStart /\ UNCHANGED returned
       \/ loadAndApplyRoutes /\ UNCHANGED returned
       \/ SupReturns
       \/ SupExits
       \/ SupKilled

SpecShut == InitShut /\ [][NextShut]_vars

(***************************************************************************)
(* Claims about the shutdown of the Supervisor.                            *)
(***************************************************************************)
\* C21: when the shutdown signal of the Supervisor has fired and Daemon.Start
\* has returned, every client connection is closed and no handler is at work
\* on a request.
C21_ShutdownClosesConnections ==
    returned => \A c \in Conns : ~connOpen[c] /\ hpc[c] = "read"

(***************************************************************************)
(* Claims about the release of the locks and about lock.Acquire.           *)
(***************************************************************************)
\* A flock is owned only by a process that Acquire has returned the lock to and
\* that has neither released it nor exited, through the descriptor it holds;
\* a process that has exited or that Acquire has turned away has no descriptor
\* of the lock file.
ReleasedOnExit ==
    /\ \A i \in Inodes :
            flockOwner[i] # 0 => HoldsLock(flockOwner[i]) /\ fd[flockOwner[i]] = i
    /\ \A p \in Procs : pc[p] \in {"idle", "failed", "released"} => fd[p] = 0

\* Process q tries to flock the lock file it has opened and is refused.
FlockRefused(q) ==
    /\ pc[q] \in {"flock", "reflock"}
    /\ pc'[q] \in {"checkStale", "failed"}

HoldsDeadPid(path) ==
    /\ lockDir[path] # 0
    /\ LET text == TrimSpace(inodeData[lockDir[path]])
           number == Atoi(text)
       IN  /\ number.ok
           /\ number.val <= 0 \/ number.val \notin {q \in Procs : pc[q] # "idle"}

\* Process p is killed in this step.
Killed(p) == pc[p] # "idle" /\ pc'[p] = "idle"

DigitChar(d) == <<"0", "1", "2", "3", "4", "5", "6", "7", "8", "9">>[d + 1]

\* The decimal numeral of a natural number.
RECURSIVE Decimal(_)
Decimal(n) ==
    IF n < 10 THEN <<DigitChar(n)>> ELSE Append(Decimal(n \div 10), DigitChar(n % 10))

\* C24: while a process holds the lock that Acquire has returned to it, the
\* lock file it has locked contains the decimal PID of that process and nothing
\* else.
C24_LockFileHoldsPidOfHolder ==
    \A p \in Procs : HoldsLock(p) => inodeData[fd[p]] = Decimal(p)

(***************************************************************************)
(* port.StablePort called for a name while other programs take and release *)
(* ports (SpecStable).                                                     *)
(***************************************************************************)
\* calls of StablePort that are followed
MaxCalls == 2
\* ports, from the initial port of the name on, that other programs take
MaxProbe == 3

\* The increment without the wrap.
NextPortNoWrap(port) == port + 1

\* StablePort, lines 219-222: increment and wrap.
NextPort(port) == IF port + 1 > maxPort THEN minPort ELSE port + 1

\* The first n ports the loop of StablePort looks at, from port on.
RECURSIVE ProbedPorts(_, _)
ProbedPorts(port, n) ==
    IF n = 0 THEN {} ELSE {port} \cup ProbedPorts(NextPort(port), n - 1)

\* Another program listens on a port, or closes its listener.
PortTaken(port) ==
    /\ port \notin busy
    /\ busy' = busy \cup {port}
    /\ UNCHANGED <<pname, calls>>

PortReleased(port) ==
    /\ port \in busy
    /\ busy' = busy \ {port}
    /\ UNCHANGED <<pname, calls>>

\* StablePort(name) is called and returns.
CallStablePort ==
    /\ Len(calls) < MaxCalls
    /\ calls' = Append(calls, [taken |-> busy, port |-> StablePort])
    /\ UNCHANGED <<pname, busy>>

InitStable ==
    /\ LockIdle
    /\ DaemonIdle
    /\ OrchIdle
    /\ pname \in ProjectNames
    /\ decl = pname

NextStable ==
    /\ UNCHANGED <<lockVars, daemonVars, stopVars, returned, decl, labels, probe, unapplied>>
    /\ UNCHANGED <<getRouteCase, rpc, rwait, rconn, rproc, rport, rexit, runs, child, orphans>>
    /\ \/ \E port \in ProbedPorts(initialPort, MaxProbe) : PortTaken(port)
       \/ \E port \in busy : PortReleased(port)
       \/ CallStablePort

SpecStable == InitStable /\ [][NextStable]_vars

(***************************************************************************)
(* Claims about port.StablePort.                                           *)
(***************************************************************************)
\* The port is one StablePort may return.
Allowed(port) == port >= minPort /\ port <= maxPort /\ port \notin avoidPorts

C26_BusyInitialPortIsSkipped ==
    \A i \in DOMAIN calls :
        initialPort \in calls[i].taken =>
            /\ calls[i].port \notin calls[i].taken
            /\ calls[i].port # initialPort
            /\ Allowed(calls[i].port)

\* StablePort was called for a name whose initial port is the last of the range
\* while that port was held, and has returned the first port of the range.
C26_Witness ==
    \E i \in DOMAIN calls :
        /\ initialPort = maxPort
        /\ initialPort \in calls[i].taken
        /\ calls[i].port = minPort

(***************************************************************************)
(* project.normalizeName applied to a declared name, and again to its own  *)
(* result (SpecNorm).                                                      *)
(***************************************************************************)
\* length of the declared names
MaxLen == 4

\* The characters of the declared names: a lower-case letter, an upper-case
\* letter, a digit, the dash, and two characters outside the class [a-z0-9-].
NameChars == {"a", "B", "7", "-", "_", "@"}

DeclaredNames == UNION {[1 .. n -> NameChars] : n \in 0 .. MaxLen}

\* normalizeName is applied: first to the name of package.json (FindProjectRoot
\* line 52), then to the result of the application before.
Normalize ==
    /\ Len(labels) < 2
    /\ labels' = Append(labels, normalizeName(IF labels = <<>> THEN decl
                                              ELSE labels[Len(labels)]))
    /\ UNCHANGED <<returned, decl, pname, calls, probe, unapplied>>

InitNorm ==
    /\ LockIdle
    /\ DaemonIdle
    /\ OrchIdle
    /\ decl \in DeclaredNames
    /\ pname = <<>>

NextNorm ==
    /\ UNCHANGED <<lockVars, daemonVars, runVars, stopVars>>
    /\ Normalize

SpecNorm == InitNorm /\ [][NextNorm]_vars

(***************************************************************************)
(* Claims about the project name.                                          *)
(***************************************************************************)
IsLowerAlnum(ch) == IsLabelChar(ch) /\ ch # "-"

\* The empty label, or a label of [a-z0-9-] that starts and ends with a
\* character of [a-z0-9].
IsHostLabel(s) ==
    \/ s = <<>>
    \/ /\ \A i \in DOMAIN s : IsLabelChar(s[i])
       /\ IsLowerAlnum(s[1])
       /\ IsLowerAlnum(s[Len(s)])

\* C27: normalize(normalize(s)) = normalize(s), and normalize(s) is empty or
\* starts and ends with a character of [a-z0-9] and has only characters of
\* [a-z0-9-].
C27_NormalizeIsIdempotent ==
    /\ Len(labels) >= 1 => IsHostLabel(labels[1])
    /\ Len(labels) >= 2 => labels[2] = labels[1]

\* normalizeName has been applied twice to a name that it changes and that it
\* does not take to the empty label.
C27_Witness ==
    /\ Len(labels) = 2
    /\ decl = <<"-", "B", "_", "a">>
    /\ labels[1] = <<"b", "-", "a">>

(***************************************************************************)
(* `faa run` in a project whose declared name has no character of          *)
(* [a-z0-9] (SpecEmpty).                                                   *)
(***************************************************************************)
\* Declared names that normalizeName takes to the empty label.
EmptyNames == {<<>>, <<"@", "_">>}

InitEmpty == InitOrchNamed(EmptyNames, {FreshDisk}, MenuRun, MaxOther, BOOLEAN)

SpecEmpty == InitEmpty /\ [][NextRun]_vars

\* C28: `run` in a project whose declared name normalizes to the empty label
\* reserves no route and spawns no dev process, and when it returns it returns
\* the failure.
C28_EmptyLabelFailsBeforeRouteAndChild ==
    normalizeName(decl) = <<>> =>
        /\ normalizeHost(RunHost) \notin RouteHosts(regDir, regData)
        /\ child = NoChild
        /\ rpc = "done" => rexit = <<ExitError>>

(***************************************************************************)
(* The registry operations on files that are missing, of length zero or    *)
(* not JSON, one client at a time (SpecFiles).                             *)
(***************************************************************************)
\* Each of the two registry files is missing, of length zero, not JSON, or the
\* file of UsedDisk.
FileImages ==
    {[routes |-> r, procs |-> p] :
        r \in {NoFile, TruncFile, GarbageFile, UsedDisk.routes},
        p \in {NoFile, TruncFile, GarbageFile, UsedDisk.procs}}

MenuFiles ==
    { UpsertRoute(HostA, PortA), ListRoutes, SetProcess(Root, ChildPid, HostBLocal, PortB),
      GetProcess(Root), ClearProcess(Root), Status, Stop, Malformed }

InitFiles == InitDaemon(MenuFiles, FileImages) /\ RunIdle

NextFiles ==
    /\ \/ \E c \in {1} :
            \/ ClientConnect(c)
            \/ \E r \in menu : ClientSend(c, r)
            \/ HandleDecodeError(c)
            \/ HandleLocal(c)
            \/ HandleLoad(c)
            \/ SaveOpen(c)
            \/ SaveWrite(c)
            \/ SaveRename(c)
            \/ Reload(c)
            \/ Apply(c)
            \/ Lookup(c)
            \/ Lookup2(c)
       \/ SupStart
       \/ loadAndApplyRoutes
       \/ SupStop
       \/ SupCrash
       \/ \E pid \in livePids : ChildExit(pid)
    /\ UNCHANGED <<lockVars, runVars, stopVars, extVars>>

SpecFiles == InitFiles /\ [][NextFiles]_vars

(***************************************************************************)
(* Claims about the registry files.                                        *)
(***************************************************************************)
\* The registry file at the path, as a registry operation finds it.
Missing(path) == FileAt(regDir, regData, path).kind \in {"absent", "trunc"}
Unparsable(path) == FileAt(regDir, regData, path).kind = "garbage"

\* The handler of c starts on a request of type t in this step: the first
\* registry operation of the request loads its file.
Starts(c, t) ==
    /\ CanDecode(c)
    /\ DecodeRequest(inbox[c]).type = t
    /\ inbox'[c] = Tail(inbox[c])
    /\ supState' = "serving"

\* The handler of c answers its request in this step.
Answers(c) == nresp'[c] = nresp[c] + 1 /\ lastResp'.conn = c

\* The registry files a request of type t reads.
FilesOf(t) ==
    IF t = "status" THEN {RoutesPath, ProcessesPath} ELSE {FileOf(t)}

\* C29: a registry operation that finds its file missing or of length zero
\* works on the empty map (an upsert saves the one route, a set saves the one
\* record, a clear saves the empty map, a listing or a lookup answers with
\* nothing); a request whose file does not parse is answered with an error;
\* and a registry file that does not parse is not changed by any step. The
\* start of the Supervisor, which loads routes.json, fails on a routes.json
\* that does not parse.
C29_MissingIsEmptyUnparsableIsError ==
    [][ /\ \A c \in Conns :
            LET r == DecodeRequest(inbox[c])
            IN  /\ (Starts(c, "upsert_route") /\ Missing(RoutesPath)) =>
                        /\ hpc'[c] = "saveOpen"
                        /\ hmap'[c] = Put(EmptyMap, normalizeHost(r.host), r.port)
                /\ (Starts(c, "list_routes") /\ Missing(RoutesPath)) =>
                        /\ Answers(c)
                        /\ lastResp'.ok /\ lastResp'.data = <<EmptyMap>>
                /\ (Starts(c, "set_process") /\ Missing(ProcessesPath)) =>
                        /\ hpc'[c] = "saveOpen"
                        /\ hmap'[c] = Put(EmptyMap, r.root, Proc(r.pid, r.host, r.port))
                /\ (Starts(c, "clear_process") /\ Missing(ProcessesPath)) =>
                        /\ hpc'[c] = "saveOpen"
                        /\ hmap'[c] = EmptyMap
                /\ (Starts(c, "get_process") /\ Missing(ProcessesPath)) =>
                        hpc'[c] = "lookup"
                /\ (Busy(c, "lookup") /\ hreq[c].type = "get_process" /\ Answers(c)
                        /\ Missing(ProcessesPath)) =>
                        lastResp'.ok /\ lastResp'.data = <<NoProc>>
                /\ (Busy(c, "lookup2") /\ Answers(c) /\ Missing(ProcessesPath)) =>
                        lastResp'.ok /\ lastResp'.data[2] = EmptyMap
                /\ (Answers(c) /\ lastResp'.req.type \in RegistryTypes
                        /\ \E path \in FilesOf(lastResp'.req.type) : Unparsable(path)) =>
                        ~lastResp'.ok
        /\ (supState = "starting" /\ Unparsable(RoutesPath)) =>
                supState' \in {"starting", "down"}
        /\ \A path \in {RoutesPath, ProcessesPath} :
                Unparsable(path) =>
                    /\ regDir'[path] = regDir[path]
                    /\ regData'[regDir[path]] = regData[regDir[path]] ]_vars

\* A get_process request was answered with an error while processes.json did
\* not parse, with the file as it was at the start.
C29_Witness ==
    /\ Unparsable(ProcessesPath)
    /\ lastResp.conn # 0
    /\ lastResp.req.type = "get_process"
    /\ ~lastResp.ok
    /\ regDir[ProcessesPath] = 2

(***************************************************************************)
(* upsert_route while the reconfiguration of the proxy can fail, with the  *)
(* routes whose upsert failed there remembered (SpecApply).                *)
(***************************************************************************)
MenuApply == {UpsertRoute(HostA, PortA), UpsertRoute(HostBLocal, PortB), Stop, Malformed}

InitApply == InitDaemon(MenuApply, {FreshDisk}) /\ RunIdle

\* The handler of c returns from d.proxy.ApplyRoutes in this step, with its
\* error (failed) or without.
ApplyEnds(c, failed) == ApplyReturns(c) /\ applyFailed' = failed

\* The route of the request the handler of c works on.
RouteOf(c) == <<normalizeHost(hreq[c].host), hreq[c].port>>

NextApply ==
    /\ \/ \E c \in Conns :
            \/ ClientConnect(c)
            \/ \E r \in menu : ClientSend(c, r)
            \/ HandleDecodeError(c)
            \/ HandleLocal(c)
            \/ HandleLoad(c)
            \/ SaveOpen(c)
            \/ SaveWrite(c)
            \/ SaveRename(c)
            \/ Reload(c)
            \/ Apply(c)
       \/ SupStart
       \/ loadAndApplyRoutes
       \/ SupStop
       \/ SupCrash
    /\ unapplied' = unapplied \cup {RouteOf(c) : c \in {d \in Conns : ApplyEnds(d, TRUE)}}
    /\ UNCHANGED <<lockVars, runVars, stopVars, returned, decl, pname, labels, calls, probe>>

SpecApply == InitApply /\ [][NextApply]_vars

(***************************************************************************)
(* Claims about upsert_route and the proxy.                                *)
(***************************************************************************)
\* ApplyRoutes returns without error in this step: in a handler of
\* upsert_route, or in loadAndApplyRoutes at the start of the Supervisor.
ApplySucceeds ==
    \/ \E c \in Conns : ApplyEnds(c, FALSE)
    \/ supState = "starting" /\ supState' = "serving"

\* C30: when ApplyRoutes fails in an upsert_route request the request is
\* answered with an error and routes.json has the route; and the configuration
\* that a later successful ApplyRoutes loads has every route whose upsert was
\* answered with that error.
C30_FailedApplyKeepsRoute ==
    [][ /\ \A c \in Conns :
            ApplyEnds(c, TRUE) =>
                /\ ~lastResp'.ok
                /\ RoutePort(regDir', regData', RouteOf(c)[1]) = RouteOf(c)[2]
        /\ ApplySucceeds =>
            \A e \in unapplied :
                [host |-> e[1], dial |-> Dial(e[2])] \in caddy'.routes ]_vars

(***************************************************************************)
(* Claims on the request types (SpecConn)                                  *)
(***************************************************************************)
\* The handler of c answers, in this step, a request whose type is none of
\* the MessageType constants.
AnswersUnknown(c) ==
    /\ CanDecode(c)
    /\ DecodeRequest(inbox[c]).type = Bogus.type
    /\ nresp'[c] = nresp[c] + 1

\* C31: a request whose type tag is not one of the defined message types is
\* answered with an error response, and answering it changes neither the
\* registry files nor the state of the proxy.
C31_UnknownTypeIsRejected ==
    [][ \A c \in Conns :
            AnswersUnknown(c) =>
                /\ lastResp'.conn = c
                /\ lastResp'.req.type = Bogus.type
                /\ ~lastResp'.ok
                /\ lastResp'.err = "unknown message type"
                /\ UNCHANGED <<diskVars, pRunning, pRoutes, caddy>> ]_vars

\* A request of an unknown type was answered with an error by a Supervisor
\* that has a route on disk and in the proxy.
C31_Witness ==
    /\ lastResp.req.type = Bogus.type
    /\ ~lastResp.ok
    /\ regDir[RoutesPath] # 0
    /\ caddy.routes # {}

(***************************************************************************)
(* `faa run` in a project whose package.json declares a name that is not   *)
(* its own label (SpecDecl)                                                *)
(***************************************************************************)
\* The package.json declares "A" or "a"; both give the label "a".
DeclaredRunNames == {<<"A">>, RunName}

InitDecl == InitOrchNamed(DeclaredRunNames, {FreshDisk}, MenuRun, MaxOther, BOOLEAN)

SpecDecl == InitDecl /\ [][NextRun]_vars

\* StablePort(name) as the functions of internal/port compute it, for a name
\* that need not be proj.Name.
RECURSIVE ProbeFrom(_, _, _)
ProbeFrom(first, port, attempts) ==
    IF attempts >= portRange THEN 0
    ELSE IF port \notin avoidPorts /\ IsPortFree(port) THEN port
    ELSE IF NextPort(port) = first THEN 0
    ELSE ProbeFrom(first, NextPort(port), attempts + 1)

StablePortOf(name) ==
    LET first == minPort + Uint32Mod(Sha256Prefix(name), portRange, 0)
    IN  ProbeFrom(first, first, 0)

\* handleRun goes on from GetRoute to UpsertRoute in this step of the first
\* invocation, the registry being empty.
PicksFirstPort ==
    /\ base = FreshDisk
    /\ runs = 1
    /\ RoutePort(regDir, regData, normalizeHost(RunHost)) = 0
    /\ rpc = "getRoute"
    /\ rpc' = "upsertRoute"

\* C32: on a first run with empty state the port reserved for the project is
\* StablePort applied to the name the package.json declares.
C32_FirstPortIsStablePortOfDeclaredName ==
    [][PicksFirstPort => rport' = StablePortOf(decl)]_vars

(***************************************************************************)
(* Claims about the ports StablePort probes (SpecStable).                  *)
(***************************************************************************)
\* h mod m for h the four bytes read as a big-endian unsigned integer, from
\* the place values of the bytes.
BigEndianMod(bytes, m) ==
    (bytes[1] * ((2^24) % m) + bytes[2] * ((2^16) % m) + bytes[3] * 256 + bytes[4]) % m

\* The port a call of StablePort returns when no port is taken: the port it
\* probes first.
FirstProbeIs(port) ==
    \A i \in DOMAIN calls : calls[i].taken = {} => calls[i].port = port

\* C33, as stated: the first port StablePort probes for a name is
\* 10240 + (h mod 39912), h being the first four bytes of SHA-256(name) read
\* as a big-endian unsigned integer.
C33_FirstProbeIsHashMod39912 ==
    FirstProbeIs(10240 + BigEndianMod(Sha256Prefix(pname), 39912))

\* C33, amended: the first port StablePort probes for a name is
\* 10240 + (h mod 38912), 38912 being the number of ports in [10240, 49151].
C33_FirstProbeIsHashMod38912 ==
    FirstProbeIs(10240 + BigEndianMod(Sha256Prefix(pname), 38912))

\* StablePort was called with no port taken for the name whose hash gives the
\* last offset of the range, and has returned port 49151.
C33_Witness ==
    /\ pname = App51964
    /\ calls # <<>>
    /\ calls[1].taken = {}
    /\ calls[1].port = 10240 + 38911

(***************************************************************************)
(* One call of port.StablePort followed through its loop, the ports held   *)
(* by other programs staying as they are during the call (SpecProbe).      *)
(***************************************************************************)
\* the ports of the range
PortsOfRange == minPort..maxPort

\* Lines 192-204: the hash, the initial port, port := initialPort, attempts := 0.
ProbeCall ==
    /\ probe.pc = "idle"
    /\ probe' = [pc |-> "loop", port |-> initialPort, attempts |-> 0, result |-> 0]

\* One evaluation of the loop condition and, when it holds, of the loop body
\* (lines 207-228): the port is returned, or the loop goes on with the next
\* port, or it ends and the error is returned (line 231).
ProbeStep ==
    /\ probe.pc = "loop"
    /\ probe' =
         IF probe.attempts >= portRange
         THEN [probe EXCEPT !.pc = "done", !.result = 0]
         ELSE IF probe.port \notin avoidPorts /\ IsPortFree(probe.port)
         THEN [probe EXCEPT !.pc = "done", !.result = probe.port]
         ELSE IF NextPort(probe.port) = initialPort /\ probe.attempts + 1 > 0
         THEN [pc |-> "done", port |-> NextPort(probe.port),
               attempts |-> probe.attempts + 1, result |-> 0]
         ELSE [probe EXCEPT !.port = NextPort(probe.port), !.attempts = @ + 1]

\* The port k places behind the initial port in the cyclic order of the range.
CyclicAt(k) == minPort + ((initialPort - minPort + k) % portRange)

\* Ports held by other programs when StablePort is called: none, the initial
\* port and the one behind it, every port of the range but the one before the
\* initial port, or every port of the range.
Occupancies ==
    { {},
      {initialPort, CyclicAt(1)},
      PortsOfRange \ {CyclicAt(portRange - 1)},
      PortsOfRange }

InitProbe ==
    /\ LockIdle
    /\ DaemonIdle
    /\ pname \in {RunName, App18027}
    /\ decl = pname
    /\ getRouteCase = FALSE
    /\ rpc = "idle"
    /\ rwait = FALSE
    /\ rconn = 0
    /\ rproc = NoProc
    /\ rport = 0
    /\ rexit = <<>>
    /\ runs = 0
    /\ child = NoChild
    /\ orphans = {}
    /\ busy \in Occupancies

NextProbe ==
    /\ UNCHANGED <<lockVars, daemonVars, runVars, stopVars>>
    /\ UNCHANGED <<returned, decl, pname, labels, calls, unapplied>>
    /\ \/ ProbeCall
       \/ ProbeStep

SpecProbe == InitProbe /\ [][NextProbe]_vars

\* The port is free and not in the avoid-set.
Qualifies(port) == port \notin avoidPorts /\ port \notin busy

\* C34: StablePort probes the ports in cyclic order from the initial port,
\* wrapping from 49151 to 10240, and no port twice; it goes on only from a port
\* that does not qualify; the port it returns is the one it probed last and
\* qualifies; and it returns its error exactly when no port of the range
\* qualifies.
C34_ProbesOneCycleAndReturnsFirstFit ==
    [][ /\ probe'.pc = "loop" =>
            /\ probe'.attempts < portRange
            /\ probe'.port = CyclicAt(probe'.attempts)
        /\ probe'.attempts = probe.attempts + 1 =>
            /\ ~Qualifies(probe.port)
            /\ probe'.port = IF probe.port = 49151 THEN 10240 ELSE probe.port + 1
        /\ probe'.pc = "done" =>
            /\ probe'.attempts <= portRange
            /\ probe'.result # 0 =>
                /\ probe'.result = CyclicAt(probe'.attempts)
                /\ Qualifies(probe'.result)
            /\ probe'.result = 0 <=> \A port \in PortsOfRange : ~Qualifies(port) ]_vars

\* StablePort, called for a name whose initial port is 49150 while 49150 and
\* 49151 are held, has wrapped and returned 10240 at its third probe.
C34_Witness ==
    /\ probe.pc = "done"
    /\ initialPort = 49150
    /\ busy = {49150, 49151}
    /\ probe.attempts = 2
    /\ probe.result = 10240

(***************************************************************************)
(* The Supervisor serving requests that name a host without the suffix, as *)
(* handleRun and the tests of cmd/faa send them (SpecHosts).               *)
(***************************************************************************)
MenuHosts ==
    { UpsertRoute(HostA, PortA), SetProcess(Root, ChildPid, HostA, PortA),
      GetProcess(Root), ListRoutes, Stop, Malformed }

InitHosts == InitDaemon(MenuHosts, {FreshDisk}) /\ RunIdle

SpecHosts == InitHosts /\ [][Next]_vars

\* strings.HasSuffix(host, ".local")
HasSuffix(h) == h # <<>> /\ h[Len(h)] = Suffix

\* The keys of the map routes.json holds, as they are in the file.
StoredRouteKeys ==
    LET file == FileAt(regDir, regData, RoutesPath)
    IN  IF file.kind = "json" THEN DOMAIN file.val ELSE {}

\* C35: every host stored in the registry, each key of the map in routes.json
\* and the host of each record in processes.json, ends with the suffix.
C35_StoredHostsEndWithSuffix ==
    /\ \A h \in StoredRouteKeys : HasSuffix(h)
    /\ \A root \in DOMAIN ProcessesOn(regDir, regData) :
            HasSuffix(ProcessesOn(regDir, regData)[root].host)

(***************************************************************************)
(* Claims about the start of the Supervisor (Spec).                        *)
(***************************************************************************)
\* Daemon.Start gets to net.Listen in this step: from now on connections
\* are accepted.
StartsServing == supState # "serving" /\ supState' = "serving"

\* C36: when the Supervisor starts to accept connections every route that
\* routes.json holds is in the configuration the proxy serves and no
\* connection has been accepted yet; a connection is accepted only by a
\* Supervisor that has got that far.
C36_RoutesAppliedBeforeFirstAccept ==
    [][ /\ StartsServing =>
            /\ \A c \in Conns : ~connOpen'[c] /\ nresp'[c] = 0
            /\ \A h \in RouteHosts(regDir', regData') :
                    [host |-> h, dial |-> Dial(RoutePort(regDir', regData', h))]
                        \in caddy'.routes
        /\ \A c \in Conns : (~connOpen[c] /\ connOpen'[c]) => supState = "serving" ]_vars

\* A Supervisor started on a routes.json that holds a route serves that route
\* and has not accepted a connection yet.
C36_Witness ==
    /\ supState = "serving"
    /\ base = UsedDisk
    /\ \A c \in Conns : ~connOpen[c] /\ sent[c] = 0
    /\ RouteHosts(regDir, regData) = {HostALocal}
    /\ Serves(HostALocal, PortA)

(***************************************************************************)
(* Claims about what the loads of the registry find (Spec).                *)
(***************************************************************************)
\* The registry file the handler of c reads in its next step, "" when that
\* step is no load.
FileToLoad(c) ==
    CASE hpc[c] = "read" /\ CanDecode(c) /\ DecodeRequest(inbox[c]).type \in RegistryTypes ->
            FileOf(DecodeRequest(inbox[c]).type)
      [] hpc[c] = "reload" -> RoutesPath
      [] hpc[c] = "lookup" -> IF hreq[c].type = "status" THEN RoutesPath ELSE ProcessesPath
      [] hpc[c] = "lookup2" -> ProcessesPath
      [] OTHER -> ""

\* The handler of c takes a step.
HandlerSteps(c) == hpc'[c] # hpc[c] \/ nresp'[c] # nresp[c]

\* C38: while handlers of different connections write the registry, no load
\* of routes.json or processes.json finds a file that a write in progress has
\* truncated and not yet filled.
C38_NoLoadSeesPartialFile ==
    [][ \A c \in Conns :
            (supState = "serving" /\ FileToLoad(c) # "" /\ HandlerSteps(c)) =>
                FileAt(regDir, regData, FileToLoad(c)).kind # "trunc" ]_vars

(***************************************************************************)
(* Claims about a launch that does not get the daemon lock (SpecLock).     *)
(***************************************************************************)
\* Process q takes a step of a launch that has not got the lock: a step of
\* lock.Acquire that does not end with the lock, or the exit after Acquire
\* has failed.
StepsWithoutLock(q) ==
    /\ kind = "daemon"
    /\ pc'[q] # pc[q]
    /\ pc[q] \in {"idle", "open", "flock", "checkStale", "remove", "reopen", "reflock",
                  "failed"}
    /\ pc'[q] \notin HoldingPcs

LiveChildren == livePids

\* C40: at any time at most one dev process started by `run` for a project
\* root is alive.
C40_AtMostOneLiveChildPerProject == Cardinality(LiveChildren) <= 1

====
